---- MODULE Spec2Model ----
(***************************************************************************)
(* Model of the Compass photo synchronisation engine                       *)
(* (src/compass_photo/core.py, src/compassphoto.py, src/run.py).           *)
(*                                                                         *)
(* Strings are sequences of one-character strings, so that regular         *)
(* expression search, substring tests, slicing, glob matching and file     *)
(* name construction are computed character by character, the way the     *)
(* code computes them.                                                     *)
(***************************************************************************)
EXTENDS Integers, Sequences, FiniteSets, TLC

VARIABLES
    det,            \* ChangeDetector call: [dir, code, pv, pc, result]
    rt,             \* one RetryingTransport call: [fn, max_retries, script, pc, result]
    people,         \* people_with_photos: sequence of person records
    batch_limit,    \* the limit argument of download_photos, 0 for None
    files,          \* names of the files in photos_dir
    pc,             \* position of download_photos
    idx,            \* position of the loop in photos_to_download (1-based)
    downloaded,     \* local counter of download_photos
    updated,        \* local counter of download_photos
    skipped,        \* local counter of download_photos
    failed,         \* local counter of download_photos
    existing_file,  \* second result of should_update_photo for the current person
    action_type,    \* "updated" | "downloaded" | None
    gets,           \* photo GETs issued for the current person
    served,         \* the portal's answer to the current person's last photo GET
    outcome,        \* per person of this run: what the loop body did
    stats,          \* the dict download_photos returned, or None
    run,            \* number of the current run of download_photos
    clean,          \* no person of an earlier run failed
    events,         \* what the loop body did for the current person, in order
    orphaned,       \* persons whose last processing stopped after the old file
                    \* was removed and before the new one was written
    auth,           \* one call of get_authenticated_session
    dirq,           \* one call of get_staff_data or get_student_data
    roster,         \* the person list and map built from a directory response
    job             \* one full run: get_all_photos, or main of run.py

vars == <<det, rt, people, batch_limit, files, pc, idx, downloaded, updated, skipped,
          failed, existing_file, action_type, gets, served, outcome, stats, run, clean,
          events, orphaned, auth, dirq, roster, job>>

flowVars == <<auth, dirq, roster, job>>

syncVars == <<people, batch_limit, files, pc, idx, downloaded, updated, skipped,
              failed, existing_file, action_type, gets, served, outcome, stats, run, clean,
              events, orphaned>>

-----------------------------------------------------------------------------
(* Bounds of the model *)

MaxPeople == 2      \* longest batch handed to download_photos
MaxStale == 2       \* most files in photos_dir before the first run
MaxRetries == 3     \* largest attempt budget of a retry loop
MaxDetFiles == 2    \* most files in the directory of a ChangeDetector call
MaxRuns == 2        \* runs of download_photos over one directory

(* Program constants *)

TsDigits == 10      \* \d{10} of the timestamp pattern
GuidLen == 8        \* person['pv'][:8]

-----------------------------------------------------------------------------
(* Strings *)

None == <<>>        \* Python None / empty string: both are falsy

Digit == {"0", "1", "2", "3", "4", "5", "6", "7", "8", "9"}
Letter == {"a", "b", "c", "d", "g", "j", "k", "n", "o", "p", "u", "w", "x", "y", "z",
           "A", "B", "H", "I", "J", "K", "M", "N", "O", "P", "S", "T", "U", "W", "X"}

\* str.isalnum() on one character
isalnum(c) == c \in Digit \cup Letter

Rep(c, n) == [k \in 1..n |-> c]

Min(S) == CHOOSE m \in S : \A n \in S : m <= n

\* s[:n]
Prefix(s, n) == SubSeq(s, 1, IF Len(s) < n THEN Len(s) ELSE n)

StartsWith(s, p) == Len(p) <= Len(s) /\ SubSeq(s, 1, Len(p)) = p

EndsWith(s, p) == Len(p) <= Len(s) /\ SubSeq(s, Len(s) - Len(p) + 1, Len(s)) = p

\* `sub in s` on strings
Contains(s, sub) ==
    \E k \in 0..(Len(s) - Len(sub)) : SubSeq(s, k + 1, k + Len(sub)) = sub

\* str.strip(): the alphabet's only whitespace is the space
RECURSIVE LStrip(_)
LStrip(s) == IF s # <<>> /\ Head(s) = " " THEN LStrip(Tail(s)) ELSE s

RECURSIVE RStrip(_)
RStrip(s) ==
    IF s # <<>> /\ s[Len(s)] = " " THEN RStrip(SubSeq(s, 1, Len(s) - 1)) ELSE s

strip(s) == RStrip(LStrip(s))

JpgExt == <<".", "j", "p", "g">>
Unknown == <<"u", "n", "k", "n", "o", "w", "n">>

-----------------------------------------------------------------------------
(* ChangeDetector *)

\* re.match of  _(\d{10}[AP]M)  at position i of s
TimestampAt(s, i) ==
    /\ i + TsDigits + 2 <= Len(s)
    /\ s[i] = "_"
    /\ \A k \in 1..TsDigits : s[i + k] \in Digit
    /\ s[i + TsDigits + 1] \in {"A", "P"}
    /\ s[i + TsDigits + 2] = "M"

extract_timestamp_from_pv(pv_string) ==
    IF pv_string = <<>> THEN None
    ELSE LET hits == {i \in 1..Len(pv_string) : TimestampAt(pv_string, i)}
         IN  IF hits = {} THEN None
             ELSE SubSeq(pv_string, Min(hits) + 1, Min(hits) + TsDigits + 2)

\* glob.glob(os.path.join(photos_dir, f"{display_code}_*.jpg")): the names of
\* photos_dir that start with display_code + "_" and end with ".jpg", the star
\* standing for any (also empty) run of characters between the two.
\* display_code holds no glob metacharacter in this alphabet.
glob(photos_dir, display_code) ==
    {f \in photos_dir :
        /\ Len(f) >= Len(display_code) + 1 + Len(JpgExt)
        /\ StartsWith(f, display_code \o <<"_">>)
        /\ EndsWith(f, JpgExt)}

\* The results should_update_photo can return, one per enumeration order of
\* glob.glob (os.listdir order is arbitrary): <<should_update, existing_file>>.

\* as should_update_photo, without the early return for a token with no timestamp
should_update_photo_wrong(photos_dir, display_code, current_pv) ==
    LET current_timestamp == extract_timestamp_from_pv(current_pv)
        existing_files == glob(photos_dir, display_code)
        same == {f \in existing_files : Contains(f, current_timestamp)}
    IN  IF existing_files = {} THEN {<<TRUE, None>>}
        ELSE IF same # {} THEN {<<FALSE, f>> : f \in same}
        ELSE {<<TRUE, f>> : f \in existing_files}

\* as should_update_photo, but a stale cache is refreshed without naming a file
should_update_photo_unnamed(photos_dir, display_code, current_pv) ==
    LET current_timestamp == extract_timestamp_from_pv(current_pv)
        existing_files == glob(photos_dir, display_code)
        same == {f \in existing_files : Contains(f, current_timestamp)}
    IN  IF current_timestamp = None THEN {<<TRUE, None>>}
        ELSE IF existing_files = {} THEN {<<TRUE, None>>}
        ELSE IF same # {} THEN {<<FALSE, f>> : f \in same}
        ELSE {<<TRUE, None>>}

\* as should_update_photo, but only the first-listed file is compared
should_update_photo_first_only(photos_dir, display_code, current_pv) ==
    LET current_timestamp == extract_timestamp_from_pv(current_pv)
        existing_files == glob(photos_dir, display_code)
    IN  IF current_timestamp = None THEN {<<TRUE, None>>}
        ELSE IF existing_files = {} THEN {<<TRUE, None>>}
        ELSE {<<~Contains(f, current_timestamp), f>> : f \in existing_files}

\* as should_update_photo, but a cached file is refreshed without comparing
\* its name with the token
should_update_photo_uncompared(photos_dir, display_code, current_pv) ==
    LET existing_files == glob(photos_dir, display_code)
    IN  IF existing_files = {} THEN {<<TRUE, None>>}
        ELSE {<<TRUE, f>> : f \in existing_files}

should_update_photo(photos_dir, display_code, current_pv) ==
    LET current_timestamp == extract_timestamp_from_pv(current_pv)
        existing_files == glob(photos_dir, display_code)
        same == {f \in existing_files : Contains(f, current_timestamp)}
    IN  IF current_timestamp = None THEN {<<TRUE, None>>}
        ELSE IF existing_files = {} THEN {<<TRUE, None>>}
        ELSE IF same # {} THEN {<<FALSE, f>> : f \in same}
        ELSE {<<TRUE, f>> : f \in existing_files}

-----------------------------------------------------------------------------
(* File names *)

SafeChar(c) == isalnum(c) \/ c \in {" ", "-", "_"}

\* "".join(c for c in displayCode if c.isalnum() or c in (' ', '-', '_')).strip()
safe_name(displayCode) == strip(SelectSeq(displayCode, SafeChar))

\* as _generate_filename, but the display code is used as the portal sent it
_generate_filename_raw(displayCode, pv) ==
    LET timestamp == IF extract_timestamp_from_pv(pv) # None
                     THEN extract_timestamp_from_pv(pv) ELSE Unknown
        guid == Prefix(pv, GuidLen)
    IN  displayCode \o <<"_">> \o guid \o <<"_">> \o timestamp \o JpgExt

\* as _generate_filename, but the timestamp of the token is not put in the name
_generate_filename_unstamped(displayCode, pv) ==
    safe_name(displayCode) \o <<"_">> \o Prefix(pv, GuidLen) \o <<"_">> \o Unknown \o JpgExt

\* f"{safe_name}_{guid}_{timestamp}.jpg"
_generate_filename(displayCode, pv) ==
    LET timestamp == IF extract_timestamp_from_pv(pv) # None
                     THEN extract_timestamp_from_pv(pv) ELSE Unknown
        guid == Prefix(pv, GuidLen)
    IN  safe_name(displayCode) \o <<"_">> \o guid \o <<"_">> \o timestamp \o JpgExt

-----------------------------------------------------------------------------
(* Inputs *)

TS1 == Rep("1", TsDigits) \o <<"A", "M">>
TS2 == Rep("2", TsDigits) \o <<"P", "M">>

K1 == <<"x", "_">> \o TS1                    \* token stamped TS1
K2 == <<"y", "_">> \o TS2                    \* token stamped TS2
K0 == <<"z">>                                \* token with no timestamp

CodeA == <<"A">>
CodeAB == <<"A", ".", "_", "B">>             \* sanitised to A_B
CodeJS == <<" ", "J", ".", "S">>             \* sanitised to JS

\* tokens for the ChangeDetector alone: the empty token, near misses of the
\* pattern, a token holding two timestamps
DetTokens ==
    { <<>>, K0, K1, K2,
      <<"x", "_">> \o Rep("1", TsDigits - 1) \o <<"A", "M">>,
      <<"x", "_">> \o Rep("1", TsDigits) \o <<"X", "M">>,
      <<"x">> \o TS1,
      <<"w", "_">> \o TS2 \o <<"_">> \o TS1 }

DetCodes == {CodeA, <<"A", "_", "B">>, CodeJS}

\* directory entries for the ChangeDetector alone: what the engine writes,
\* and entries it did not write
DetNames ==
    {_generate_filename(c, t) : c \in DetCodes, t \in {K0, K1, K2}}
    \cup { <<"A", "_", "x", "_">> \o TS1 \o <<".", "p", "n", "g">>,
           <<"A", "_">> \o JpgExt,
           <<" ", "J", ".", "S", "_", "x", "_">> \o TS1 \o JpgExt }

DetDirs == {d \in SUBSET DetNames : Cardinality(d) <= MaxDetFiles}

-----------------------------------------------------------------------------
(* The ChangeDetector called on its own *)

DetIdle == [dir |-> {}, code |-> <<>>, pv |-> <<>>, pc |-> "idle", result |-> <<TRUE, None>>]

DetInit ==
    det \in {[dir |-> d, code |-> c, pv |-> t, pc |-> "call", result |-> <<TRUE, None>>] :
                d \in DetDirs, c \in DetCodes, t \in DetTokens}

DetCall ==
    /\ det.pc = "call"
    /\ \E r \in should_update_photo(det.dir, det.code, det.pv) :
           det' = [det EXCEPT !.pc = "done", !.result = r]
    /\ UNCHANGED <<rt, syncVars, flowVars>>

-----------------------------------------------------------------------------
(* RetryingTransport *)

\* What the server, or the network, answers to one attempt: a status for which
\* raise_for_status() passes, an HTTP error status, or a requests exception.
Ok == "200"
HTTPErrors == {"403", "404", "429"}
TimeoutOrConnection == {"Timeout", "ConnectionError"}
OtherRequestException == {"TooManyRedirects"}
Answers == {Ok} \cup HTTPErrors \cup TimeoutOrConnection \cup OtherRequestException

\* The exception requests raises for an answer, with the attempt counts the
\* retry loop attached to it: the loops re-raise the exception as it is and
\* attach none.
Exception(answer) == [kind |-> answer, tagged |-> {}]

NoError == [kind |-> "none", tagged |-> {}]

\* as Wait, always the first entry of the table
Wait_first(retry_delays, attempt) == retry_delays[1]

\* retry_delays[min(attempt, len(retry_delays) - 1)], attempt counted from 0
Wait(retry_delays, attempt) ==
    retry_delays[(IF attempt < Len(retry_delays) - 1 THEN attempt
                  ELSE Len(retry_delays) - 1) + 1]

Returned(attempt, waits) ==
    [ret |-> "response", attempts |-> attempt + 1, error |-> NoError, waits |-> waits]

\* as Raised, but the error is wrapped in a new RuntimeError
Raised_wrapped(answer, attempt, waits) ==
    [ret |-> "raise", attempts |-> attempt + 1, error |-> Exception("RuntimeError"),
     waits |-> waits]

Raised(answer, attempt, waits) ==
    [ret |-> "raise", attempts |-> attempt + 1, error |-> Exception(answer), waits |-> waits]

\* the loop ran out without returning or raising: last_error is None exactly
\* when no attempt was made, and the function then returns None
FellThrough(attempt, waits) ==
    [ret |-> "none", attempts |-> attempt, error |-> NoError, waits |-> waits]

RetryableStatus == {"403", "429"}

\* for attempt in range(max_retries) of _fetch_photo_with_retry, from `attempt` on:
\* every RequestException is caught
RECURSIVE FetchLoop(_, _, _, _, _)
FetchLoop(script, max_retries, retry_delays, attempt, waits) ==
    IF attempt >= max_retries THEN FellThrough(attempt, waits)
    ELSE LET answer == script[attempt + 1]
             again == FetchLoop(script, max_retries, retry_delays, attempt + 1,
                                Append(waits, Wait(retry_delays, attempt)))
         IN  IF answer = Ok THEN Returned(attempt, waits)
             ELSE IF attempt < max_retries - 1
                  THEN again ELSE Raised(answer, attempt, waits)

_fetch_photo_with_retry(script, max_retries, retry_delays) ==
    FetchLoop(script, max_retries, retry_delays, 0, <<>>)

\* as _request_with_retry, catching every error the way the photo loop does
_request_with_retry_any(script, max_retries, retry_delays) ==
    FetchLoop(script, max_retries, retry_delays, 0, <<>>)

\* for attempt in range(max_retries) of _request_with_retry, from `attempt` on;
\* script[k] is the answer to the k-th request
RECURSIVE RequestLoop(_, _, _, _, _)
RequestLoop(script, max_retries, retry_delays, attempt, waits) ==
    IF attempt >= max_retries THEN FellThrough(attempt, waits)
    ELSE LET answer == script[attempt + 1]
             again == RequestLoop(script, max_retries, retry_delays, attempt + 1,
                                  Append(waits, Wait(retry_delays, attempt)))
         IN  IF answer = Ok THEN Returned(attempt, waits)
             ELSE IF answer \in HTTPErrors
                  THEN IF attempt < max_retries - 1 /\ answer \in RetryableStatus
                       THEN again ELSE Raised(answer, attempt, waits)
             ELSE IF answer \in TimeoutOrConnection
                  THEN IF attempt < max_retries - 1
                       THEN again ELSE Raised(answer, attempt, waits)
             ELSE Raised(answer, attempt, waits)

\* as _request_with_retry, with range(max_retries - 1)
_request_with_retry_short(script, max_retries, retry_delays) ==
    RequestLoop(script, max_retries - 1, retry_delays, 0, <<>>)

_request_with_retry(script, max_retries, retry_delays) ==
    RequestLoop(script, max_retries, retry_delays, 0, <<>>)

DefaultRetries == 3
ApiDelays == <<5, 15, 30>>
PhotoDelays == <<2, 5, 10>>

\* as _human_delay, but it never sleeps
_human_delay_never(base, jitter) == {FALSE}

\* _human_delay(base_sec, jitter_sec): whether it sleeps. With no base and
\* some jitter the sleep is random.uniform(0, jitter) seconds, which can be 0.
_human_delay(base, jitter) ==
    IF base <= 0 /\ jitter <= 0 THEN {FALSE}
    ELSE IF base > 0 THEN {TRUE}
    ELSE {TRUE, FALSE}

Event(op, what) == [op |-> op, what |-> what]

\* the requests of one retry loop that made `attempts` attempts, and the
\* waits between them
Attempts(method, what, attempts) ==
    [k \in 1..(2 * attempts - 1) |->
        IF k % 2 = 1 THEN Event(method, what) ELSE Event("sleep", "retry")]

-----------------------------------------------------------------------------
(* One call of a retry loop on its own *)

\* answers to one more request than the largest budget can issue
Scripts == [1..(MaxRetries + 1) -> Answers]

RtIdle == [fn |-> "none", max_retries |-> 0, script |-> <<>>, pc |-> "idle",
           result |-> FellThrough(0, <<>>)]

RtInit ==
    rt \in {[fn |-> f, max_retries |-> m, script |-> s, pc |-> "call",
             result |-> FellThrough(0, <<>>)] :
               f \in {"_request_with_retry", "_fetch_photo_with_retry"},
               m \in 1..MaxRetries, s \in Scripts}

\* a call with any attempt budget a caller can pass, 0 included
BudgetInit ==
    rt \in {[fn |-> f, max_retries |-> m, script |-> s, pc |-> "call",
             result |-> FellThrough(0, <<>>)] :
               f \in {"_request_with_retry", "_fetch_photo_with_retry"},
               m \in 0..MaxRetries, s \in Scripts}

RequestCall ==
    /\ rt.pc = "call"
    /\ rt.fn = "_request_with_retry"
    /\ rt' = [rt EXCEPT !.pc = "done",
                        !.result = _request_with_retry(rt.script, rt.max_retries, ApiDelays)]
    /\ UNCHANGED <<det, syncVars, flowVars>>

FetchCall ==
    /\ rt.pc = "call"
    /\ rt.fn = "_fetch_photo_with_retry"
    /\ rt' = [rt EXCEPT !.pc = "done",
                        !.result = _fetch_photo_with_retry(rt.script, rt.max_retries, PhotoDelays)]
    /\ UNCHANGED <<det, syncVars, flowVars>>

-----------------------------------------------------------------------------
(* PhotoSyncEngine: download_photos *)

ProgressEvery == 25           \* if (i + 1) % 25 == 0
download_delay == 250         \* COMPASS_DOWNLOAD_DELAY, default 0.25 s, in ms
download_delay_jitter == 200  \* COMPASS_DOWNLOAD_DELAY_JITTER, default 0.2 s, in ms

Person(displayCode, pv) == [displayCode |-> displayCode, pv |-> pv]

\* person records the directory layer hands over: the token is stripped and
\* not empty, the display code is whatever the portal sent
Persons == {Person(c, t) : c \in {CodeA, CodeAB}, t \in {K0, K1, K2}}

Batches == UNION {[1..n -> Persons] : n \in 0..MaxPeople}

\* what earlier runs can have left in photos_dir
SyncNames == {_generate_filename(p.displayCode, p.pv) : p \in Persons}

SyncDirs == {d \in SUBSET SyncNames : Cardinality(d) <= MaxStale}

SyncIdle ==
    /\ people = <<>>
    /\ batch_limit = 0
    /\ files = {}
    /\ pc = "idle"
    /\ idx = 0
    /\ downloaded = 0 /\ updated = 0 /\ skipped = 0 /\ failed = 0
    /\ existing_file = None
    /\ action_type = None
    /\ gets = 0
    /\ served = "none"
    /\ outcome = <<>>
    /\ stats = None
    /\ run = 0
    /\ clean = TRUE
    /\ events = <<>>
    /\ orphaned = {}

SyncInit ==
    /\ people \in Batches
    /\ batch_limit = 0
    /\ files \in SyncDirs
    /\ pc = "call"
    /\ idx = 0
    /\ downloaded = 0 /\ updated = 0 /\ skipped = 0 /\ failed = 0
    /\ existing_file = None
    /\ action_type = None
    /\ gets = 0
    /\ served = "none"
    /\ outcome = <<>>
    /\ stats = None
    /\ run = 1
    /\ clean = TRUE
    /\ events = <<>>
    /\ orphaned = {}

LongBatch == 26     \* persons of the longest batch that reaches a progress line

DigitSeq == <<"0", "1", "2", "3", "4", "5", "6", "7", "8", "9">>

\* the display codes P01, P02, ... of a long batch
Code(k) == <<"P", DigitSeq[(k \div 10) + 1], DigitSeq[(k % 10) + 1]>>

LongPeople(n) == [k \in 1..n |-> Person(Code(k), K1)]

\* the directory before the run over a long batch: the photos of the persons
\* before the last ones are cached and current, the photo of each of the
\* last ones is cached and current, cached and stale, or not cached
LongDirs(n) ==
    LET last == (ProgressEvery - 1)..n
    IN  {{_generate_filename(Code(k), K1) : k \in (1..n) \ last}
         \cup {_generate_filename(Code(k), K1) : k \in current}
         \cup {_generate_filename(Code(k), K2) : k \in stale} :
            current \in SUBSET last, stale \in SUBSET last}

LongInit ==
    /\ \E n \in {ProgressEvery, LongBatch} :
          /\ people = LongPeople(n)
          /\ files \in {d \in LongDirs(n) :
                           \A k \in 1..n :
                              ~(/\ _generate_filename(Code(k), K1) \in d
                                /\ _generate_filename(Code(k), K2) \in d)}
    /\ batch_limit = 0
    /\ pc = "call"
    /\ idx = 0
    /\ downloaded = 0 /\ updated = 0 /\ skipped = 0 /\ failed = 0
    /\ existing_file = None
    /\ action_type = None
    /\ gets = 0
    /\ served = "none"
    /\ outcome = <<>>
    /\ stats = None
    /\ run = 1
    /\ clean = TRUE
    /\ events = <<>>
    /\ orphaned = {}

\* download_photos called with a limit: 0 stands for None (and for 0, which
\* `if limit` treats alike), the other values cut the batch or exceed it
LimitInit ==
    /\ people \in Batches
    /\ batch_limit \in 0..MaxPeople
    /\ files \in {d \in SyncDirs : Cardinality(d) <= 1}
    /\ pc = "call"
    /\ idx = 0
    /\ downloaded = 0 /\ updated = 0 /\ skipped = 0 /\ failed = 0
    /\ existing_file = None
    /\ action_type = None
    /\ gets = 0
    /\ served = "none"
    /\ outcome = <<>>
    /\ stats = None
    /\ run = 1
    /\ clean = TRUE
    /\ events = <<>>
    /\ orphaned = {}

\* as photos_to_download, but the limit is not applied
photos_to_download_unlimited == people

\* people_with_photos[:limit] if limit else people_with_photos
photos_to_download == IF batch_limit # 0 THEN Prefix(people, batch_limit) ELSE people

\* entry of download_photos: the counters start at 0
download_photos ==
    /\ pc = "call"
    /\ pc' = "loop"
    /\ idx' = 1
    /\ downloaded' = 0 /\ updated' = 0 /\ skipped' = 0 /\ failed' = 0
    /\ existing_file' = None
    /\ action_type' = None
    /\ gets' = 0
    /\ served' = "none"
    /\ outcome' = <<>>
    /\ stats' = None
    /\ events' = <<>>
    /\ UNCHANGED <<flowVars, det, rt, people, batch_limit, files, run, clean, orphaned>>

\* as Except, but the exception ends the batch
Except_aborts ==
    /\ failed' = failed + 1
    /\ outcome' = Append(outcome, "failed")
    /\ idx' = Len(photos_to_download) + 1
    /\ pc' = "loop"
    /\ UNCHANGED <<downloaded, updated, skipped>>

\* except Exception: failed += 1, and the loop goes on with the next person
Except ==
    /\ failed' = failed + 1
    /\ outcome' = Append(outcome, "failed")
    /\ idx' = idx + 1
    /\ pc' = "loop"
    /\ UNCHANGED <<downloaded, updated, skipped>>

\* top of the loop body: names, the ChangeDetector's decision, the skip
Decide ==
    /\ pc = "loop"
    /\ idx <= Len(photos_to_download)
    /\ LET person == photos_to_download[idx]
           safe == safe_name(person.displayCode)
       IN  \E r \in should_update_photo(files, safe, person.pv) :
              IF ~r[1]
              THEN /\ skipped' = skipped + 1
                   /\ outcome' = Append(outcome, "skipped")
                   /\ idx' = idx + 1
                   /\ UNCHANGED <<pc, existing_file, action_type, downloaded, updated, failed>>
              ELSE /\ existing_file' = r[2]
                   /\ action_type' = IF r[2] # None THEN "updated" ELSE "downloaded"
                   /\ pc' = IF r[2] # None THEN "remove" ELSE "fetch"
                   /\ UNCHANGED <<idx, outcome, downloaded, updated, skipped, failed>>
    /\ gets' = 0
    /\ served' = "none"
    /\ events' = <<>>
    /\ orphaned' = orphaned \ {idx}
    /\ UNCHANGED <<flowVars, det, rt, people, batch_limit, files, stats, run, clean>>

\* as Remove, but the old file is left in place
Remove_kept ==
    /\ pc = "remove"
    /\ pc' = "fetch"
    /\ UNCHANGED <<flowVars, det, rt, people, batch_limit, files, idx, outcome, downloaded, updated, skipped,
                   failed, existing_file, action_type, gets, served, stats, run, clean,
                   events, orphaned>>

\* os.remove(existing_file), which can raise OSError
Remove ==
    /\ pc = "remove"
    /\ \/ /\ files' = files \ {existing_file}
          /\ events' = Append(events, Event("remove", "existing_file"))
          /\ pc' = "fetch"
          /\ UNCHANGED <<idx, outcome, downloaded, updated, skipped, failed>>
       \/ /\ Except
          /\ UNCHANGED <<files, events>>
    /\ UNCHANGED <<flowVars, det, rt, people, batch_limit, existing_file, action_type, gets, served, stats,
                   run, clean, orphaned>>

PhotoScripts == [1..DefaultRetries -> Answers]

\* what _fetch_photo_with_retry(photo_url) can do, over every script of
\* answers: its result and the answer to the last GET it sent
PhotoFetches ==
    {[res |-> _fetch_photo_with_retry(script, DefaultRetries, PhotoDelays),
      last |-> script[_fetch_photo_with_retry(script, DefaultRetries, PhotoDelays).attempts]] :
        script \in PhotoScripts}

\* as Fetch, but a failed download is tried again for the same person
Fetch_again ==
    /\ pc = "fetch"
    /\ \E f \in PhotoFetches :
          /\ gets' = f.res.attempts
          /\ served' = f.last
          /\ events' = events \o Attempts("GET", "photo", f.res.attempts)
          /\ pc' = IF f.res.ret = "response" THEN "write" ELSE "fetch"
    /\ UNCHANGED <<flowVars, det, rt, people, batch_limit, files, existing_file, action_type,
                   stats, run, clean, idx, outcome, downloaded, updated, skipped, failed,
                   orphaned>>

\* response = self._fetch_photo_with_retry(photo_url)
Fetch ==
    /\ pc = "fetch"
    /\ \E f \in PhotoFetches :
          \E slept \in _human_delay(download_delay, download_delay_jitter) :
             /\ gets' = f.res.attempts
             /\ served' = f.last
             /\ events' = events
                            \o (IF slept THEN <<Event("sleep", "pre-download")>> ELSE <<>>)
                            \o Attempts("GET", "photo", f.res.attempts)
             /\ IF f.res.ret = "response"
                THEN /\ pc' = "write"
                     /\ UNCHANGED <<idx, outcome, downloaded, updated, skipped, failed, orphaned>>
                ELSE /\ Except
                     /\ orphaned' = IF action_type = "updated"
                                     THEN orphaned \cup {idx} ELSE orphaned
    /\ UNCHANGED <<flowVars, det, rt, people, batch_limit, files, existing_file, action_type, stats, run, clean>>

\* open(filepath, 'wb') and write, which can raise OSError; then the counter
Write ==
    /\ pc = "write"
    /\ LET person == photos_to_download[idx]
           filename == _generate_filename(person.displayCode, person.pv)
       IN  \/ /\ files' = files \cup {filename}
              /\ updated' = IF action_type = "updated" THEN updated + 1 ELSE updated
              /\ downloaded' = IF action_type = "updated" THEN downloaded ELSE downloaded + 1
              /\ outcome' = Append(outcome, action_type)
              /\ events' = Append(events, Event("write", "photo"))
                            \o (IF idx % ProgressEvery = 0
                                THEN <<Event("print", "progress")>> ELSE <<>>)
              /\ idx' = idx + 1
              /\ pc' = "loop"
              /\ UNCHANGED <<skipped, failed, orphaned>>
           \/ /\ Except
              /\ orphaned' = IF action_type = "updated" THEN orphaned \cup {idx} ELSE orphaned
              /\ UNCHANGED <<files, events>>
    /\ UNCHANGED <<flowVars, det, rt, people, batch_limit, existing_file, action_type, gets, served, stats, run, clean>>

\* after the loop: the returned dict
Return ==
    /\ pc = "loop"
    /\ idx > Len(photos_to_download)
    /\ stats' = [total_processed |-> Len(photos_to_download), downloaded |-> downloaded,
                 updated |-> updated, skipped |-> skipped, failed |-> failed]
    /\ pc' = "returned"
    /\ UNCHANGED <<flowVars, det, rt, people, batch_limit, files, idx, downloaded, updated, skipped, failed,
                   existing_file, action_type, gets, served, outcome, run, clean,
                   events, orphaned>>

-----------------------------------------------------------------------------
(* A second run over the same batch and directory *)

\* download_photos is called again: same person list, same tokens, the
\* directory as the run before left it
Rerun ==
    /\ pc = "returned"
    /\ run < MaxRuns
    /\ run' = run + 1
    /\ clean' = (clean /\ failed = 0)
    /\ pc' = "call"
    /\ UNCHANGED <<flowVars, det, rt, people, batch_limit, files, idx, downloaded, updated, skipped, failed,
                   existing_file, action_type, gets, served, outcome, stats, events, orphaned>>

\* The process is stopped while a person is being processed (nothing in the
\* code catches a kill), and download_photos is called again later: same
\* person list, same tokens, the directory as the stopped run left it.
Crash ==
    /\ pc \in {"remove", "fetch", "write"}
    /\ run < MaxRuns
    /\ run' = run + 1
    /\ clean' = FALSE
    /\ orphaned' = IF pc \in {"fetch", "write"} /\ action_type = "updated"
                    THEN orphaned \cup {idx} ELSE orphaned
    /\ pc' = "call"
    /\ UNCHANGED <<flowVars, det, rt, people, batch_limit, files, idx, downloaded, updated, skipped, failed,
                   existing_file, action_type, gets, served, outcome, stats, events>>

-----------------------------------------------------------------------------
(* _process_single_photo with download=True *)

\* the entry of _process_single_photo(person_info, True, photos_dir):
\* people holds person_info
SingleInit ==
    /\ people \in {<<p>> : p \in Persons}
    /\ batch_limit = 0
    /\ files \in SyncDirs
    /\ pc = "single"
    /\ idx = 1
    /\ downloaded = 0 /\ updated = 0 /\ skipped = 0 /\ failed = 0
    /\ existing_file = None
    /\ action_type = None
    /\ gets = 0
    /\ served = "none"
    /\ outcome = <<>>
    /\ stats = None
    /\ run = 1
    /\ clean = TRUE
    /\ events = <<>>
    /\ orphaned = {}

\* result['download_stats'] of _process_single_photo
SingleStats(ok) ==
    [total_processed |-> 1, downloaded |-> IF ok THEN 1 ELSE 0, updated |-> 0,
     skipped |-> 0, failed |-> IF ok THEN 0 ELSE 1]

\* lines 632-636: every file matching f"{person_info['displayCode']}_*.jpg",
\* the display code as the portal sent it, is removed; an OSError of
\* os.remove is not caught and leaves the files not yet removed
SingleRemove ==
    /\ pc = "single"
    /\ LET existing_files == glob(files, people[1].displayCode)
       IN  \/ /\ files' = files \ existing_files
              /\ pc' = "single_fetch"
           \/ /\ \E kept \in (SUBSET existing_files) \ {{}} :
                    files' = (files \ existing_files) \cup kept
              /\ pc' = "single_raised"
    /\ UNCHANGED <<flowVars, det, rt, people, batch_limit, idx, downloaded, updated, skipped,
                   failed, existing_file, action_type, gets, served, outcome, stats, run,
                   clean, events, orphaned>>

\* line 639: response = self._fetch_photo_with_retry(photo_url), in the try
SingleFetch ==
    /\ pc = "single_fetch"
    /\ \E f \in PhotoFetches :
          /\ gets' = f.res.attempts
          /\ served' = f.last
          /\ IF f.res.ret = "response"
             THEN pc' = "single_write" /\ UNCHANGED stats
             ELSE pc' = "single_returned" /\ stats' = SingleStats(FALSE)
    /\ UNCHANGED <<flowVars, det, rt, people, batch_limit, files, idx, downloaded, updated,
                   skipped, failed, existing_file, action_type, outcome, run, clean, events,
                   orphaned>>

\* lines 640-660: the file is written and the statistics say downloaded, or
\* the write raises and they say failed
SingleWrite ==
    /\ pc = "single_write"
    /\ \/ /\ files' = files \cup {_generate_filename(people[1].displayCode, people[1].pv)}
          /\ stats' = SingleStats(TRUE)
       \/ /\ stats' = SingleStats(FALSE)
          /\ UNCHANGED files
    /\ pc' = "single_returned"
    /\ UNCHANGED <<flowVars, det, rt, people, batch_limit, idx, downloaded, updated, skipped,
                   failed, existing_file, action_type, gets, served, outcome, run, clean,
                   events, orphaned>>

-----------------------------------------------------------------------------
(* download_photos of the standalone module compassphoto.py *)

StandaloneCall == download_photos

\* One pass of the loop body. Its download line reads `session`, a name that
\* is bound neither in the method nor in the module: evaluating it raises
\* NameError before any request is sent, and except Exception catches it.
\* `served` is the answer the portal holds ready for the GET that is not sent.
StandaloneIteration ==
    /\ pc = "loop"
    /\ idx <= Len(photos_to_download)
    /\ LET person == photos_to_download[idx]
           safe == safe_name(person.displayCode)
       IN  \E r \in should_update_photo(files, safe, person.pv) :
              IF ~r[1]
              THEN /\ skipped' = skipped + 1
                   /\ outcome' = Append(outcome, "skipped")
                   /\ idx' = idx + 1
                   /\ served' = "none"
                   /\ UNCHANGED <<pc, files, existing_file, action_type,
                                  downloaded, updated, failed>>
              ELSE /\ existing_file' = r[2]
                   /\ action_type' = IF r[2] # None THEN "updated" ELSE "downloaded"
                   /\ \/ /\ r[2] # None          \* os.remove raises OSError
                         /\ served' = "none"
                         /\ UNCHANGED files
                      \/ /\ files' = files \ {r[2]}
                         /\ served' \in Answers
                   /\ Except
    /\ gets' = 0
    /\ events' = <<>>
    /\ UNCHANGED <<flowVars, det, rt, people, batch_limit, stats, run, clean, orphaned>>

StandaloneReturn == Return

-----------------------------------------------------------------------------
(* Authenticator: get_authenticated_session *)

MaxInputs == 2      \* most input elements in a form of the login page

\* answers to the login GET and the credential POST: success, the two
\* statuses the loops retry, a status they do not retry, a requests exception
AuthAnswers == {Ok, "403", "429", "404", "Timeout"}

\* RuntimeError("Login page could not be loaded ... access/network issue ...")
AccessError == Exception("RuntimeError: access/network issue")
\* RuntimeError("Failed to get login page after retries")
NoPageError == Exception("RuntimeError: failed to get login page")
\* Exception("No login form found")
NoFormError == Exception("Exception: No login form found")
\* RuntimeError("Failed to complete login submit after retries")
NoSubmitError == Exception("RuntimeError: failed to complete login submit")
\* Exception("Login failed - wrong credentials or no authenticated content in response")
LoginFailed == Exception("Exception: Login failed")

RaisedAccess(attempt, waits) ==
    [ret |-> "raise", attempts |-> attempt + 1, error |-> AccessError, waits |-> waits]

\* as LoginGetLoop, but the answer to the last attempt is kept as the login
\* page whatever its status
RECURSIVE LoginGetLoop_swallow(_, _, _, _, _)
LoginGetLoop_swallow(script, max_retries, retry_delays, attempt, waits) ==
    IF attempt >= max_retries THEN FellThrough(attempt, waits)
    ELSE LET answer == script[attempt + 1]
             again == LoginGetLoop_swallow(script, max_retries, retry_delays, attempt + 1,
                                           Append(waits, Wait(retry_delays, attempt)))
         IN  IF answer = Ok THEN Returned(attempt, waits)
             ELSE IF attempt < max_retries - 1 /\ answer # "404"
                  THEN again ELSE Returned(attempt, waits)

\* the loop around session.get(login_url), from `attempt` on
RECURSIVE LoginGetLoop(_, _, _, _, _)
LoginGetLoop(script, max_retries, retry_delays, attempt, waits) ==
    IF attempt >= max_retries THEN FellThrough(attempt, waits)
    ELSE LET answer == script[attempt + 1]
             again == LoginGetLoop(script, max_retries, retry_delays, attempt + 1,
                                   Append(waits, Wait(retry_delays, attempt)))
         IN  IF answer = Ok THEN Returned(attempt, waits)
             ELSE IF answer \in HTTPErrors
                  THEN IF attempt < max_retries - 1 /\ answer \in RetryableStatus
                       THEN again
                       ELSE IF answer \in RetryableStatus
                            THEN RaisedAccess(attempt, waits)
                            ELSE Raised(answer, attempt, waits)
             ELSE IF attempt < max_retries - 1
                  THEN again ELSE RaisedAccess(attempt, waits)

\* as LoginPostLoop, but a 403 or 429 is not tried again
RECURSIVE LoginPostLoop_once(_, _, _, _, _)
LoginPostLoop_once(script, max_retries, retry_delays, attempt, waits) ==
    IF attempt >= max_retries THEN FellThrough(attempt, waits)
    ELSE LET answer == script[attempt + 1]
             again == LoginPostLoop_once(script, max_retries, retry_delays, attempt + 1,
                                         Append(waits, Wait(retry_delays, attempt)))
         IN  IF answer = Ok THEN Returned(attempt, waits)
             ELSE IF answer \in HTTPErrors
                  THEN Raised(answer, attempt, waits)
             ELSE IF attempt < max_retries - 1
                  THEN again ELSE Raised(answer, attempt, waits)

\* the loop around session.post(login_url, data=payload), from `attempt` on
RECURSIVE LoginPostLoop(_, _, _, _, _)
LoginPostLoop(script, max_retries, retry_delays, attempt, waits) ==
    IF attempt >= max_retries THEN FellThrough(attempt, waits)
    ELSE LET answer == script[attempt + 1]
             again == LoginPostLoop(script, max_retries, retry_delays, attempt + 1,
                                    Append(waits, Wait(retry_delays, attempt)))
         IN  IF answer = Ok THEN Returned(attempt, waits)
             ELSE IF answer \in HTTPErrors
                  THEN IF attempt < max_retries - 1 /\ answer \in RetryableStatus
                       THEN again ELSE Raised(answer, attempt, waits)
             ELSE IF attempt < max_retries - 1
                  THEN again ELSE Raised(answer, attempt, waits)

\* The login page as BeautifulSoup sees it: its form elements in document
\* order, each the sequence of its input elements; NoAttr is an attribute the
\* element does not have.
NoAttr == "(no attribute)"

Input(name, value) == [name |-> name, value |-> value]

Inputs ==
    { Input(NoAttr, "v1"),
      Input("username", "v1"),
      Input("__VIEWSTATE", "v1"),
      Input("__VIEWSTATE", "v2"),
      Input("__VIEWSTATE", NoAttr) }

Forms == UNION {[1..n -> Inputs] : n \in 0..MaxInputs}

\* a form that is not the first of its page
SearchForm == <<Input("q", "v1")>>

Pages == {<<>>} \cup {<<f>> : f \in Forms} \cup {<<f, SearchForm>> : f \in Forms}

\* self.username, self.password: __init__ refuses empty ones
Username == "user@school"
Password == "secret"

\* payload[name] = value on a dict
Put(payload, name, value) ==
    [k \in DOMAIN payload \cup {name} |-> IF k = name THEN value ELSE payload[k]]

\* for input_field in form.find_all("input"): ... payload[name] = value
RECURSIVE FormPayload(_, _)
FormPayload(inputs, payload) ==
    IF inputs = <<>> THEN payload
    ELSE LET name == Head(inputs).name
             value == IF Head(inputs).value = NoAttr THEN "" ELSE Head(inputs).value
         IN  FormPayload(Tail(inputs),
                         IF name # NoAttr /\ name # ""
                         THEN Put(payload, name, value) ELSE payload)

EmptyDict == [k \in {} |-> ""]

\* as LoginPayload, but the credentials are put first and the form's own
\* username and password fields overwrite them
LoginPayload_form_wins(form) ==
    FormPayload(form, Put(Put(EmptyDict, "username", Username), "password", Password))

\* lines 186-193: the payload of the credential POST
LoginPayload(form) ==
    Put(Put(FormPayload(form, EmptyDict), "username", Username), "password", Password)

MarkerHome ==
    <<"H", "o", "m", "e", " ", "|", " ", "C", "o", "m", "p", "a", "s", "s">>

MarkerNavBar ==
    <<"p", "r", "o", "d", "u", "c", "t", "N", "a", "v", "B", "a", "r">>

MarkerMfe ==
    <<"C", "o", "m", "p", "a", "s", "s", ".", "m", "f", "e", "C", "o", "n",
      "f", "i", "g">>

HomeBody ==
    <<"<", "t", "i", "t", "l", "e", ">", "H", "o", "m", "e", " ", "|", " ",
      "C", "o", "m", "p", "a", "s", "s", "<", "/", "t", "i", "t", "l", "e",
      ">">>

NavBody ==
    <<"<", "d", "i", "v", " ", "i", "d", "=", "p", "r", "o", "d", "u", "c",
      "t", "N", "a", "v", "B", "a", "r", ">">>

MfeBody ==
    <<"C", "o", "m", "p", "a", "s", "s", ".", "m", "f", "e", "C", "o", "n",
      "f", "i", "g", "=", "{", "}">>

SignInBody ==
    <<"<", "t", "i", "t", "l", "e", ">", "S", "i", "g", "n", " ", "i", "n",
      " ", "|", " ", "C", "o", "m", "p", "a", "s", "s", "<", "/", "t", "i",
      "t", "l", "e", ">">>

EmptyBody == <<>>

\* r.text of the answer to the credential POST
Bodies == {HomeBody, NavBody, MfeBody, SignInBody, EmptyBody}

\* as HasMarker, looking for the first marker only
HasMarker_home_only(text) == Contains(text, MarkerHome)

\* "Home | Compass" in r.text or "productNavBar" in r.text or "Compass.mfeConfig" in r.text
HasMarker(text) ==
    Contains(text, MarkerHome) \/ Contains(text, MarkerNavBar) \/ Contains(text, MarkerMfe)

initial_delay == 3   \* get_authenticated_session(initial_delay=3)
post_delay == 2      \* get_authenticated_session(post_delay=2)

\* if delay: time.sleep(delay), a fixed number of seconds
FixedDelay(delay, name) == IF delay # 0 THEN <<Event("sleep", name)>> ELSE <<>>

AuthIdle ==
    [max_retries |-> 0, page |-> <<>>, pc |-> "idle", gets |-> 0, got |-> "none",
     payload |-> EmptyDict, posts |-> <<>>, sent |-> <<>>, body |-> <<>>,
     error |-> NoError, session |-> "none", trace |-> <<>>]

\* the state at the entry of get_authenticated_session
AuthEntry(max_retries, page) ==
    [AuthIdle EXCEPT !.max_retries = max_retries, !.page = page, !.pc = "Init"]

AuthInit ==
    auth \in {AuthEntry(m, p) : m \in 1..MaxRetries, p \in Pages}

\* what the GET loop can do over every script of answers: its result and the
\* answer to the last GET it sent
LoginGets(max_retries) ==
    {[res |-> LoginGetLoop(script, max_retries, ApiDelays, 0, <<>>),
      last |-> IF LoginGetLoop(script, max_retries, ApiDelays, 0, <<>>).attempts = 0
               THEN "none"
               ELSE script[LoginGetLoop(script, max_retries, ApiDelays, 0, <<>>).attempts]] :
        script \in [1..max_retries -> AuthAnswers]}

\* what the POST loop can do over every script of answers: its result and
\* the answers to the POSTs it sent
LoginPosts(max_retries) ==
    {[res |-> LoginPostLoop(script, max_retries, ApiDelays, 0, <<>>),
      seen |-> SubSeq(script, 1, LoginPostLoop(script, max_retries, ApiDelays, 0, <<>>).attempts)] :
        script \in [1..max_retries -> AuthAnswers]}

\* lines 133-176: the initial delay, then GET the login page
LoginGet ==
    /\ auth.pc = "Init"
    /\ \E g \in LoginGets(auth.max_retries) :
          auth' = [auth EXCEPT !.gets = g.res.attempts,
                               !.trace = FixedDelay(initial_delay, "initial_delay")
                                         \o Attempts("GET", "login", g.res.attempts),
                               !.got = g.last,
                               !.pc = IF g.res.ret = "response"
                                      THEN "LoginPageFetched" ELSE "Failed",
                               !.error = IF g.res.ret = "none"
                                         THEN NoPageError ELSE g.res.error]
    /\ UNCHANGED <<det, rt, syncVars, dirq, roster, job>>

\* as ParseForm, but a page with no form is submitted with the credentials alone
ParseForm_lenient ==
    /\ auth.pc = "LoginPageFetched"
    /\ auth' = [auth EXCEPT !.pc = "FormParsed",
                            !.trace = auth.trace \o FixedDelay(post_delay, "post_delay"),
                            !.payload = IF auth.page = <<>> THEN LoginPayload(<<>>)
                                        ELSE LoginPayload(Head(auth.page))]
    /\ UNCHANGED <<det, rt, syncVars, dirq, roster, job>>

\* lines 178-193: the post-delay, soup.find("form"), the payload
ParseForm ==
    /\ auth.pc = "LoginPageFetched"
    /\ IF auth.page = <<>>
       THEN auth' = [auth EXCEPT !.pc = "Failed", !.error = NoFormError,
                                 !.trace = auth.trace \o FixedDelay(post_delay, "post_delay")]
       ELSE auth' = [auth EXCEPT !.pc = "FormParsed",
                                 !.trace = auth.trace \o FixedDelay(post_delay, "post_delay"),
                                 !.payload = LoginPayload(Head(auth.page))]
    /\ UNCHANGED <<det, rt, syncVars, dirq, roster, job>>

\* lines 202-225: POST the credentials
Submit ==
    /\ auth.pc = "FormParsed"
    /\ \E p \in LoginPosts(auth.max_retries) :
          \E text \in Bodies :
             /\ p.res.ret # "response" => text = EmptyBody
             /\ auth' = [auth EXCEPT !.posts = p.seen,
                                     !.trace = auth.trace
                                               \o Attempts("POST", "login", Len(p.seen)),
                                     !.sent = [k \in 1..Len(p.seen) |-> auth.payload],
                                     !.body = text,
                                     !.pc = IF p.res.ret = "response"
                                            THEN "CredentialsSubmitted" ELSE "Failed",
                                     !.error = IF p.res.ret = "none"
                                               THEN NoSubmitError ELSE p.res.error]
    /\ UNCHANGED <<det, rt, syncVars, dirq, roster, job>>

\* lines 226-228: the markers of an authenticated page
CheckMarkers ==
    /\ auth.pc = "CredentialsSubmitted"
    /\ IF HasMarker(auth.body)
       THEN auth' = [auth EXCEPT !.pc = "Authenticated", !.session = "session"]
       ELSE auth' = [auth EXCEPT !.pc = "Failed", !.error = LoginFailed]
    /\ UNCHANGED <<det, rt, syncVars, dirq, roster, job>>

-----------------------------------------------------------------------------
(* DirectoryClient: get_staff_data, get_student_data *)

\* answers to a warm-up GET or an API POST: success, a status the transport
\* retries, a status it does not retry, a requests exception it retries
ApiAnswers == {Ok, "403", "404", "Timeout"}

StudentDelays == <<10, 20, 40>>

\* COMPASS_REQUEST_DELAY, COMPASS_REQUEST_DELAY_JITTER: the defaults, and off
RequestDelays == {[base |-> 2, jitter |-> 1], [base |-> 0, jitter |-> 1],
                  [base |-> 2, jitter |-> 0], [base |-> 0, jitter |-> 0]}

\* the requests and the waits between them of one call of _request_with_retry
\* that made `attempts` attempts against the script
RequestEvents(method, script, attempts) ==
    [k \in 1..(2 * attempts - 1) |->
        IF k % 2 = 1 THEN Event(method, script[(k + 1) \div 2])
        ELSE Event("sleep", "retry")]

\* ValueError of response.json()
JSONDecodeError == Exception("JSONDecodeError")

\* A field the JSON object does not have
Absent == <<"(absent)">>

\* one element of the person list of a directory response
Entry(pv, photoUrl, photo, displayCode, code) ==
    [pv |-> pv, photoUrl |-> photoUrl, photo |-> photo,
     displayCode |-> displayCode, code |-> code,
     n |-> Absent, name |-> Absent]

\* the element with its name fields `n` and `name`
WithNames(e, n, name) == [e EXCEPT !.n = n, !.name = name]

\* the parsed JSON: an object with the list under `d`, an object without `d`
\* (entries holds the object itself), or a bare list
Response(shape, entries) == [shape |-> shape, entries |-> entries]

NoResponse == Response("none", <<>>)

\* what the portal can answer to the two API calls of a run
StaffResponses ==
    { Response("d", <<>>),
      Response("d", <<Entry(K1, Absent, Absent, CodeA, Absent)>>),
      Response("d", <<Entry(<<" ">>, Absent, Absent, CodeA, Absent),
                      Entry(K0, Absent, Absent, CodeAB, Absent)>>),
      Response("object", <<Entry(Absent, Absent, Absent, Absent, Absent)>>) }

StudentResponses ==
    { Response("d", <<Entry(K2, Absent, Absent, CodeA, Absent)>>),
      Response("list", <<Entry(Absent, <<" ">> \o K1 \o <<" ">>, Absent, Absent, CodeJS)>>),
      Response("object", <<Entry(Absent, Absent, K0, CodeAB, Absent)>>),
      Response("object", <<Entry(Absent, Absent, Absent, Absent, Absent)>>),
      Response("d", <<>>) }

Responses(fn) == IF fn = "get_staff_data" THEN StaffResponses ELSE StudentResponses

DirIdle ==
    [fn |-> "none", session |-> 0, delay |-> [base |-> 0, jitter |-> 0],
     pc |-> "idle", trace |-> <<>>, data |-> NoResponse, error |-> NoError]

\* the state at the entry of get_staff_data(session) or get_student_data(session)
DirEntry(fn, session, delay) ==
    [DirIdle EXCEPT !.fn = fn, !.session = session, !.delay = delay, !.pc = "warmup"]

DirInit ==
    dirq \in {DirEntry(fn, 1, delay) :
                 fn \in {"get_staff_data", "get_student_data"}, delay \in RequestDelays}

\* the scripts of answers one call of _request_with_retry can meet here
ApiScripts == [1..DefaultRetries -> ApiAnswers]

\* _human_delay() and the requests of one _request_with_retry call
ApiCalls(method, delay, retry_delays) ==
    {[res |-> _request_with_retry(script, DefaultRetries, retry_delays),
      events |-> (IF slept THEN <<Event("sleep", "pre-request")>> ELSE <<>>)
                 \o RequestEvents(method, script,
                        _request_with_retry(script, DefaultRetries, retry_delays).attempts)] :
        script \in ApiScripts, slept \in _human_delay(delay.base, delay.jitter)}

\* page_response = self._request_with_retry(session, "GET", ...)
WarmupGet ==
    /\ dirq.pc = "warmup"
    /\ \E c \in ApiCalls("GET", dirq.delay, ApiDelays) :
          dirq' = [dirq EXCEPT !.trace = dirq.trace \o c.events,
                               !.pc = IF c.res.ret = "response" THEN "pace" ELSE "raised",
                               !.error = c.res.error]
    /\ UNCHANGED <<det, rt, syncVars, auth, roster, job>>

\* as Pace, but the pause is skipped
Pace_skipped ==
    /\ dirq.pc = "pace"
    /\ dirq' = [dirq EXCEPT !.pc = "api"]
    /\ UNCHANGED <<det, rt, syncVars, auth, roster, job>>

\* self._human_delay(3, 1)
Pace ==
    /\ dirq.pc = "pace"
    /\ \E slept \in _human_delay(3, 1) :
          dirq' = [dirq EXCEPT !.trace = IF slept
                                         THEN Append(dirq.trace, Event("sleep", "pacing"))
                                         ELSE dirq.trace,
                               !.pc = "api"]
    /\ UNCHANGED <<det, rt, syncVars, auth, roster, job>>

\* self._request_with_retry(session, "POST", ...): get_student_data passes its
\* own max_retries=3 and retry_delays=(10, 20, 40)
ApiPost ==
    /\ dirq.pc = "api"
    /\ \E c \in ApiCalls("POST", dirq.delay,
                         IF dirq.fn = "get_student_data" THEN StudentDelays ELSE ApiDelays) :
          dirq' = [dirq EXCEPT !.trace = dirq.trace \o c.events,
                               !.pc = IF c.res.ret = "response" THEN "parse" ELSE "raised",
                               !.error = c.res.error]
    /\ UNCHANGED <<det, rt, syncVars, auth, roster, job>>

\* return staff_response.json(), which raises when the body is not JSON
ParseJson ==
    /\ dirq.pc = "parse"
    /\ \/ \E data \in Responses(dirq.fn) :
             dirq' = [dirq EXCEPT !.trace = Append(dirq.trace, Event("json", "parsed")),
                                  !.pc = "returned",
                                  !.data = data]
       \/ dirq' = [dirq EXCEPT !.trace = Append(dirq.trace, Event("json", "invalid")),
                               !.pc = "raised",
                               !.error = JSONDecodeError]
    /\ UNCHANGED <<det, rt, syncVars, auth, roster, job>>

-----------------------------------------------------------------------------
(* The retry loops and their arguments *)

\* the retry loops of the program: the two of the transport, the API POST of
\* get_student_data, and the two of get_authenticated_session
RetryLoops ==
    {"_request_with_retry", "_fetch_photo_with_retry", "get_student_data",
     "get_authenticated_session GET", "get_authenticated_session POST"}

\* retry_delays=... in the signature of the function
DefaultDelays(fn) ==
    IF fn = "_fetch_photo_with_retry" THEN PhotoDelays
    ELSE IF fn = "get_student_data" THEN StudentDelays
    ELSE ApiDelays

\* the tables a caller passes: shorter than the attempt budget, as long as
\* it, and one that does not escalate
DelayTables == {<<5>>, <<5, 15>>, <<1, 2, 3>>, <<30, 5>>}

WaitAnswers == {Ok, "429", "404", "Timeout"}

\* a keyword argument: the set of the values passed, empty when the caller
\* leaves it out and the default of the signature applies
Arg(passed, default) == IF passed = {} THEN default ELSE CHOOSE v \in passed : TRUE

WaitsInit ==
    rt \in {[fn |-> f, args |-> [max_retries |-> m, retry_delays |-> d],
             script |-> s, pc |-> "call", max_retries |-> 0, retry_delays |-> <<>>,
             result |-> FellThrough(0, <<>>)] :
               f \in RetryLoops,
               m \in {{}} \cup {{n} : n \in 1..MaxRetries},
               d \in {{}} \cup {{t} : t \in DelayTables},
               s \in [1..MaxRetries -> WaitAnswers]}

\* the loop of the function, run with the arguments bound as Python binds them
LoopCall ==
    /\ rt.pc = "call"
    /\ rt.fn \in RetryLoops
    /\ LET max_retries == Arg(rt.args.max_retries, DefaultRetries)
           retry_delays == Arg(rt.args.retry_delays, DefaultDelays(rt.fn))
       IN  rt' = [rt EXCEPT
                    !.pc = "done",
                    !.max_retries = max_retries,
                    !.retry_delays = retry_delays,
                    !.result =
                        IF rt.fn = "_fetch_photo_with_retry"
                        THEN _fetch_photo_with_retry(rt.script, max_retries, retry_delays)
                        ELSE IF rt.fn = "get_authenticated_session GET"
                        THEN LoginGetLoop(rt.script, max_retries, retry_delays, 0, <<>>)
                        ELSE IF rt.fn = "get_authenticated_session POST"
                        THEN LoginPostLoop(rt.script, max_retries, retry_delays, 0, <<>>)
                        ELSE _request_with_retry(rt.script, max_retries, retry_delays)]
    /\ UNCHANGED <<det, syncVars, flowVars>>

-----------------------------------------------------------------------------
(* Person lists and maps: get_staff_photos, get_student_photos *)

MaxEntries == 2     \* most entries in a directory response

\* the default display code
UNKNOWN == <<"U", "N", "K", "N", "O", "W", "N">>

\* f"{self.base_url}/download/secure/cdn/full/"
CdnUrl ==
    <<"h", "t", "t", "p", "s", ":", "/", "/", "s", "c", "h", "o", "o", "l",
      "/", "d", "o", "w", "n", "l", "o", "a", "d", "/", "s", "e", "c", "u",
      "r", "e", "/", "c", "d", "n", "/", "f", "u", "l", "l", "/">>

\* the default name
UnknownName == <<"U", "n", "k", "n", "o", "w", "n">>

NameAnn == <<"A", "n", "n">>
NameBo == <<"B", "o">>

\* dict.get(key, default)
Get(value, default) == IF value = Absent THEN default ELSE value

\* a or b on strings
Or(a, b) == IF a # <<>> THEN a ELSE b

\* staff_member.get('pv', '')
StaffToken(e) == Get(e.pv, <<>>)

\* student.get('pv', '') or student.get('photoUrl', '') or student.get('photo', '')
StudentToken(e) == Or(Or(Get(e.pv, <<>>), Get(e.photoUrl, <<>>)), Get(e.photo, <<>>))

\* as Keep, without the test of the stripped token
Keep_unstripped(pv) == pv # <<>>

\* if pv and pv.strip()
Keep(pv) == pv # <<>> /\ strip(pv) # <<>>

StaffRecord(e) == Person(Get(e.displayCode, UNKNOWN), strip(StaffToken(e)))

\* student.get('displayCode', student.get('code', 'UNKNOWN'))
StudentRecord(e) ==
    Person(Get(e.displayCode, Get(e.code, UNKNOWN)), strip(StudentToken(e)))

\* staff_member.get('n', 'Unknown')
StaffName(e) == Get(e.n, UnknownName)

\* student.get('n', student.get('name', 'Unknown'))
StudentName(e) == Get(e.n, Get(e.name, UnknownName))

\* data.get('d', [])
StaffList(data) == IF data.shape = "d" THEN data.entries ELSE <<>>

\* data['d'] if 'd' in data, else data if it is a list, else [data]
StudentList(data) ==
    IF data.shape = "d" THEN data.entries
    ELSE IF data.shape = "list" THEN data.entries
    ELSE <<data.entries[1]>>

RECURSIVE Records(_, _)
Records(list, fn) ==
    IF list = <<>> THEN <<>>
    ELSE LET e == Head(list)
             pv == IF fn = "get_staff_photos" THEN StaffToken(e) ELSE StudentToken(e)
             rest == Records(Tail(list), fn)
         IN  IF Keep(pv)
             THEN <<IF fn = "get_staff_photos" THEN StaffRecord(e) ELSE StudentRecord(e)>>
                  \o rest
             ELSE rest

\* the 'name' of the records of Records(list, fn), in the same order
RECURSIVE Names(_, _)
Names(list, fn) ==
    IF list = <<>> THEN <<>>
    ELSE LET e == Head(list)
             pv == IF fn = "get_staff_photos" THEN StaffToken(e) ELSE StudentToken(e)
             rest == Names(Tail(list), fn)
         IN  IF Keep(pv)
             THEN <<IF fn = "get_staff_photos" THEN StaffName(e) ELSE StudentName(e)>>
                  \o rest
             ELSE rest

\* if limit: list = list[:limit]
Limited(list, limit) == IF limit # 0 THEN Prefix(list, limit) ELSE list

\* staff_with_photos / students_with_photos as handed to download_photos
PeopleOf(fn, data, limit) ==
    Limited(Records(IF fn = "get_staff_photos" THEN StaffList(data) ELSE StudentList(data),
                    fn),
            limit)

\* the names of the records of PeopleOf(fn, data, limit)
NamesOf(fn, data, limit) ==
    Limited(Names(IF fn = "get_staff_photos" THEN StaffList(data) ELSE StudentList(data),
                  fn),
            limit)

\* staff_map[staff['displayCode']] = base_url + staff['pv'], in list order
MapOf(records) ==
    [c \in {records[i].displayCode : i \in 1..Len(records)} |->
        LET at == {i \in 1..Len(records) : records[i].displayCode = c}
            last == CHOOSE i \in at : \A j \in at : j <= i
        IN  CdnUrl \o records[last].pv]

EmptyMap == [c \in {} |-> <<>>]

\* limit=None, and limit=1
Limits == {0, 1}

StaffEntries ==
    {Entry(pv, Absent, Absent, c, Absent) :
        pv \in {Absent, <<>>, <<" ">>, <<" ">> \o K1 \o <<" ">>, K0},
        c \in {Absent, CodeA}}
    \cup {Entry(Absent, K2, Absent, CodeA, Absent),
          Entry(K2, Absent, Absent, CodeAB, Absent)}

StudentEntries ==
    { Entry(<<" ">> \o K1 \o <<" ">>, Absent, Absent, CodeA, Absent),
      Entry(Absent, K2, Absent, Absent, CodeJS),
      Entry(Absent, Absent, K0, Absent, Absent),
      Entry(<<" ">>, K2, Absent, CodeA, Absent),
      Entry(Absent, Absent, Absent, CodeA, Absent),
      Entry(<<>>, Absent, K0 \o <<" ">>, CodeA, Absent),
      Entry(K1, K2, K0, CodeA, CodeJS),
      Entry(Absent, <<" ">>, K0, CodeA, Absent),
      WithNames(Entry(K1, Absent, Absent, CodeA, Absent), NameAnn, NameBo),
      WithNames(Entry(Absent, Absent, K2, Absent, CodeJS), Absent, NameBo) }

Lists(entries) == UNION {[1..n -> entries] : n \in 0..MaxEntries}

RosterData(fn) ==
    IF fn = "get_staff_photos"
    THEN {Response("d", l) : l \in Lists(StaffEntries)}
         \cup {Response("object", <<e>>) : e \in StaffEntries}
    ELSE {Response(shape, l) : shape \in {"d", "list"}, l \in Lists(StudentEntries)}
         \cup {Response("object", <<e>>) : e \in StudentEntries}

RosterIdle ==
    [fn |-> "none", data |-> NoResponse, limit |-> 0, pc |-> "idle",
     records |-> <<>>, names |-> <<>>, map |-> EmptyMap]

RosterInit ==
    roster \in UNION {{[RosterIdle EXCEPT !.fn = fn, !.data = data, !.limit = limit,
                                          !.pc = "call"] :
                          data \in RosterData(fn), limit \in Limits} :
                      fn \in {"get_staff_photos", "get_student_photos"}}

\* lines 389-404 and 432-451: the person list and the map from the response
BuildRoster ==
    /\ roster.pc = "call"
    /\ roster' = [roster EXCEPT !.pc = "built",
                                !.records = PeopleOf(roster.fn, roster.data, roster.limit),
                                !.names = NamesOf(roster.fn, roster.data, roster.limit),
                                !.map = MapOf(PeopleOf(roster.fn, roster.data, roster.limit))]
    /\ UNCHANGED <<det, rt, syncVars, auth, dirq, job>>

-----------------------------------------------------------------------------
(* A full run: get_all_photos, and main of run.py *)

\* the login pages of a run: one with a form, one without
RunPages == {<<<<Input("__VIEWSTATE", "v1"), Input("username", NoAttr)>>>>, <<>>}

\* the photo directory before a run: empty, or holding a stale photo
RunDirs == {{}, {_generate_filename(CodeA, K2)}}

NoStats == <<>>

\* what get_staff_photos or get_student_photos returned: the map, and the
\* statistics of download_photos when download=True
Results(map, download_stats) == [map |-> map, download_stats |-> download_stats]

NoResults == Results(EmptyMap, NoStats)

StatKeys == {"total_processed", "downloaded", "updated", "skipped", "failed"}

\* results.get("download_stats", {}) read with .get(key, 0)
StatsOf(results) ==
    IF results.download_stats # NoStats THEN results.download_stats[1]
    ELSE [key \in StatKeys |-> 0]

\* as Combined, but the student statistics take the place of the staff ones
Combined_overwritten(staff_stats, student_stats) == student_stats

\* combined_stats[key] += staff_stats.get(key, 0), then the same for the
\* student statistics; main of run.py adds the two field by field
Combined(staff_stats, student_stats) ==
    [key \in StatKeys |-> staff_stats[key] + student_stats[key]]

Logged(phase, session) == [phase |-> phase, session |-> session]

JobIdle ==
    [entry |-> "none", download |-> FALSE, pc |-> "idle", caller |-> "none",
     session |-> 0, logins |-> 0, log |-> <<>>, error |-> NoError,
     staff_results |-> NoResults, student_results |-> NoResults,
     download_stats |-> NoStats]

\* get_all_photos(download=...) of a new CompassPhoto, or main() of run.py,
\* which downloads. Both phases use the one directory `files`: main passes
\* the same custom_dir twice, get_all_photos is called with staff_dir =
\* student_dir.
JobInit ==
    job \in {[JobIdle EXCEPT !.entry = e[1], !.download = e[2], !.pc = "start"] :
                e \in {<<"get_all_photos", TRUE>>, <<"get_all_photos", FALSE>>,
                       <<"main", TRUE>>}}

\* self.session = self.get_authenticated_session(): the call
Login(caller) ==
    /\ \E page \in RunPages : auth' = AuthEntry(DefaultRetries, page)
    /\ job' = [job EXCEPT !.pc = "auth",
                          !.caller = caller,
                          !.logins = job.logins + 1,
                          !.log = Append(job.log, Logged("login", job.logins + 1))]

\* data = self.get_staff_data(self.session) / self.get_student_data(self.session): the call
Directory(fn, phase) ==
    /\ dirq' = DirEntry(fn, job.session, [base |-> 2, jitter |-> 1])
    /\ job' = [job EXCEPT !.pc = phase \o "_data",
                          !.log = Append(job.log, Logged(phase \o "_dir", job.session))]

\* get_all_photos line 471, main line 26
RunLogin ==
    /\ job.pc = "start"
    /\ Login("run")
    /\ UNCHANGED <<det, rt, syncVars, dirq, roster>>

\* get_authenticated_session returned or raised
LoginReturn ==
    /\ job.pc = "auth"
    /\ auth.pc \in {"Authenticated", "Failed"}
    /\ auth' = AuthIdle
    /\ IF auth.pc = "Failed"
       THEN job' = [job EXCEPT !.pc = "aborted", !.error = auth.error]
       ELSE job' = [job EXCEPT !.session = job.logins,
                               !.pc = IF job.caller = "run" THEN "staff_entry"
                                      ELSE job.caller \o "_fetch"]
    /\ UNCHANGED <<det, rt, syncVars, dirq, roster>>

\* as SessionCheck, but the session at hand is not looked at
SessionCheck_always(phase, use_existing_session) ==
    /\ job.pc = phase \o "_entry"
    /\ Login(phase)
    /\ UNCHANGED <<dirq>>

\* if not use_existing_session or not getattr(self, "session", None)
SessionCheck(phase, use_existing_session) ==
    /\ job.pc = phase \o "_entry"
    /\ IF ~use_existing_session \/ job.session = 0
       THEN /\ Login(phase)
            /\ UNCHANGED <<dirq>>
       ELSE /\ job' = [job EXCEPT !.pc = phase \o "_fetch"]
            /\ UNCHANGED <<auth, dirq>>

\* get_staff_photos(..., use_existing_session=True), lines 382-386
StaffSession ==
    /\ SessionCheck("staff", TRUE)
    /\ UNCHANGED <<det, rt, syncVars, roster>>

\* line 388: data = self.get_staff_data(self.session)
StaffFetch ==
    /\ job.pc = "staff_fetch"
    /\ Directory("get_staff_data", "staff")
    /\ UNCHANGED <<det, rt, syncVars, auth, roster>>

\* as PhotosList, but download_photos is called whatever `download` says
PhotosList_downloads(fn, phase) ==
    /\ job.pc = phase \o "_data"
    /\ dirq.pc \in {"returned", "raised"}
    /\ dirq' = DirIdle
    /\ IF dirq.pc = "raised"
       THEN /\ job' = [job EXCEPT !.pc = "aborted", !.error = dirq.error]
            /\ UNCHANGED <<people, batch_limit, pc>>
       ELSE LET list == PeopleOf(fn, dirq.data, 0)
                results == Results(MapOf(list), NoStats)
            IN  /\ people' = list
                /\ batch_limit' = 0
                /\ pc' = "call"
                /\ job' = [job EXCEPT
                             !.pc = phase \o "_download",
                             !.log = Append(job.log, Logged(phase \o "_photos", job.session)),
                             !.staff_results = IF phase = "staff" THEN results ELSE @,
                             !.student_results = IF phase = "student" THEN results ELSE @]
    /\ UNCHANGED <<det, rt, auth, roster, files, idx, downloaded, updated, skipped, failed,
                   existing_file, action_type, gets, served, outcome, stats, run, clean,
                   events, orphaned>>

\* the rest of get_staff_photos or get_student_photos once the directory
\* call is over: an error of the call propagates; otherwise the list and the
\* map are built and, when download is set, download_photos is called
PhotosList(fn, phase) ==
    /\ job.pc = phase \o "_data"
    /\ dirq.pc \in {"returned", "raised"}
    /\ dirq' = DirIdle
    /\ IF dirq.pc = "raised"
       THEN /\ job' = [job EXCEPT !.pc = "aborted", !.error = dirq.error]
            /\ UNCHANGED <<people, batch_limit, pc>>
       ELSE LET list == PeopleOf(fn, dirq.data, 0)
                results == Results(MapOf(list), NoStats)
            IN  IF job.download
                THEN /\ people' = list
                     /\ batch_limit' = 0
                     /\ pc' = "call"
                     /\ job' = [job EXCEPT
                                  !.pc = phase \o "_download",
                                  !.log = Append(job.log, Logged(phase \o "_photos", job.session)),
                                  !.staff_results = IF phase = "staff" THEN results ELSE @,
                                  !.student_results = IF phase = "student" THEN results ELSE @]
                ELSE /\ job' = [job EXCEPT
                                  !.pc = IF phase = "staff" THEN "pause" ELSE "summary",
                                  !.staff_results = IF phase = "staff" THEN results ELSE @,
                                  !.student_results = IF phase = "student" THEN results ELSE @]
                     /\ UNCHANGED <<people, batch_limit, pc>>
    /\ UNCHANGED <<det, rt, auth, roster, files, idx, downloaded, updated, skipped, failed,
                   existing_file, action_type, gets, served, outcome, stats, run, clean,
                   events, orphaned>>

\* as StaffPhotos, but a failed directory call is taken for an empty directory
StaffPhotos_lenient ==
    /\ job.pc = "staff_data"
    /\ dirq.pc \in {"returned", "raised"}
    /\ dirq' = DirIdle
    /\ job' = [job EXCEPT !.pc = "pause",
                          !.staff_results = Results(MapOf(PeopleOf("get_staff_photos",
                                                                   dirq.data, 0)), NoStats)]
    /\ UNCHANGED <<det, rt, syncVars, auth, roster>>

\* get_staff_photos lines 388-408
StaffPhotos == PhotosList("get_staff_photos", "staff")

\* download_photos returned its statistics to get_staff_photos or
\* get_student_photos, which returns them with the map
PhotosReturn(phase) ==
    /\ job.pc = phase \o "_download"
    /\ pc = "returned"
    /\ pc' = "idle"
    /\ job' = [job EXCEPT
                 !.pc = IF phase = "staff" THEN "pause" ELSE "summary",
                 !.staff_results = IF phase = "staff"
                                   THEN Results(@.map, <<stats>>) ELSE @,
                 !.student_results = IF phase = "student"
                                     THEN Results(@.map, <<stats>>) ELSE @]
    /\ UNCHANGED <<det, rt, auth, dirq, roster, people, batch_limit, files, idx, downloaded, updated,
                   skipped, failed, existing_file, action_type, gets, served, outcome,
                   stats, run, clean, events, orphaned>>

\* get_staff_photos lines 408-412
StaffReturn == PhotosReturn("staff")

\* get_all_photos line 473, main line 34: self._human_delay(5, 2)
PhasePause ==
    /\ job.pc = "pause"
    /\ \E slept \in _human_delay(5, 2) :
          job' = [job EXCEPT !.pc = "student_entry",
                             !.log = IF slept THEN Append(job.log, Logged("pause", job.session))
                                     ELSE job.log]
    /\ UNCHANGED <<det, rt, syncVars, auth, dirq, roster>>

\* get_student_photos(..., use_existing_session=True), lines 419-423
StudentSession ==
    /\ SessionCheck("student", TRUE)
    /\ UNCHANGED <<det, rt, syncVars, roster>>

\* line 425: data = self.get_student_data(self.session)
StudentFetch ==
    /\ job.pc = "student_fetch"
    /\ Directory("get_student_data", "student")
    /\ UNCHANGED <<det, rt, syncVars, auth, roster>>

\* get_student_photos lines 425-455
StudentPhotos == PhotosList("get_student_photos", "student")

\* get_student_photos lines 455-459
StudentReturn == PhotosReturn("student")

\* get_all_photos lines 475-555, main lines 42-76: the run is over; with
\* download set the statistics of the two batches are combined
RunReturn ==
    /\ job.pc = "summary"
    /\ job' = [job EXCEPT
                 !.pc = "done",
                 !.download_stats =
                     IF job.download
                     THEN <<Combined(StatsOf(job.staff_results),
                                     StatsOf(job.student_results))>>
                     ELSE NoStats]
    /\ UNCHANGED <<det, rt, syncVars, auth, dirq, roster>>

-----------------------------------------------------------------------------
(* Idle values of the flows a specification does not run *)


FlowIdle == auth = AuthIdle /\ dirq = DirIdle /\ roster = RosterIdle /\ job = JobIdle

-----------------------------------------------------------------------------
(* Specifications *)

\* one run of download_photos over a directory earlier runs left behind
Init == det = DetIdle /\ rt = RtIdle /\ SyncInit /\ FlowIdle

Next == download_photos \/ Decide \/ Remove \/ Fetch \/ Write \/ Return

Spec == Init /\ [][Next]_vars

\* two runs in a row with no upstream change
NextRerun == Next \/ Rerun

SpecRerun == Init /\ [][NextRerun]_vars

\* runs in a row, some of them stopped half-way through a person
NextCrash == NextRerun \/ Crash

SpecCrash == Init /\ [][NextCrash]_vars

\* one run of download_photos over a batch long enough for a progress line
InitProgress == det = DetIdle /\ rt = RtIdle /\ LongInit /\ FlowIdle

SpecProgress == InitProgress /\ [][Next]_vars

\* one run of download_photos called with a limit
InitLimit == det = DetIdle /\ rt = RtIdle /\ LimitInit /\ FlowIdle

SpecLimit == InitLimit /\ [][Next]_vars

\* one call of _process_single_photo with download=True
InitSingle == det = DetIdle /\ rt = RtIdle /\ SingleInit /\ FlowIdle

NextSingle == SingleRemove \/ SingleFetch \/ SingleWrite

SpecSingle == InitSingle /\ [][NextSingle]_vars

\* one run of the standalone module's download_photos
NextStandalone == StandaloneCall \/ StandaloneIteration \/ StandaloneReturn

SpecStandalone == Init /\ [][NextStandalone]_vars

\* the ChangeDetector on its own, over every input of the bounded sets
InitDetector == DetInit /\ rt = RtIdle /\ SyncIdle /\ FlowIdle

NextDetector == DetCall

SpecDetector == InitDetector /\ [][NextDetector]_vars

\* one retry loop on its own, called with or without its max_retries and
\* retry_delays arguments
InitWaits == det = DetIdle /\ WaitsInit /\ SyncIdle /\ FlowIdle

NextWaits == LoopCall

SpecWaits == InitWaits /\ [][NextWaits]_vars

\* download_photos called on every batch, the directory empty or holding a
\* stale photo
EngineInit ==
    /\ people \in Batches
    /\ batch_limit = 0
    /\ files \in RunDirs
    /\ pc = "call"
    /\ idx = 0
    /\ downloaded = 0 /\ updated = 0 /\ skipped = 0 /\ failed = 0
    /\ existing_file = None
    /\ action_type = None
    /\ gets = 0
    /\ served = "none"
    /\ outcome = <<>>
    /\ stats = None
    /\ run = 1
    /\ clean = TRUE
    /\ events = <<>>
    /\ orphaned = {}

\* each retry loop on its own, or one run of download_photos; the program is
\* one thread that goes on to its next statement until it returns
InitEngine ==
    \/ InitWaits
    \/ det = DetIdle /\ rt = RtIdle /\ EngineInit /\ FlowIdle

NextEngine == LoopCall \/ Next

SpecEngine == InitEngine /\ [][NextEngine]_vars /\ WF_vars(NextEngine)

\* one retry loop on its own, over every script of answers
InitTransport == det = DetIdle /\ RtInit /\ SyncIdle /\ FlowIdle

NextTransport == RequestCall \/ FetchCall

SpecTransport == InitTransport /\ [][NextTransport]_vars

\* one retry loop on its own, over every attempt budget from 0
InitBudget == det = DetIdle /\ BudgetInit /\ SyncIdle /\ FlowIdle

SpecBudget == InitBudget /\ [][NextTransport]_vars

\* one call of get_authenticated_session, over every login page of the bounded
\* set and every script of answers
InitAuth ==
    /\ det = DetIdle /\ rt = RtIdle /\ SyncIdle
    /\ AuthInit /\ dirq = DirIdle /\ roster = RosterIdle /\ job = JobIdle

NextAuth == LoginGet \/ ParseForm \/ Submit \/ CheckMarkers

SpecAuth == InitAuth /\ [][NextAuth]_vars

\* one call of get_staff_data or get_student_data
InitDirectory ==
    /\ det = DetIdle /\ rt = RtIdle /\ SyncIdle
    /\ auth = AuthIdle /\ DirInit /\ roster = RosterIdle /\ job = JobIdle

NextDirectory == WarmupGet \/ Pace \/ ApiPost \/ ParseJson

SpecDirectory == InitDirectory /\ [][NextDirectory]_vars

\* the person list and the map built from one directory response
InitPeople ==
    /\ det = DetIdle /\ rt = RtIdle /\ SyncIdle
    /\ auth = AuthIdle /\ dirq = DirIdle /\ RosterInit /\ job = JobIdle

NextPeople == BuildRoster

SpecPeople == InitPeople /\ [][NextPeople]_vars

\* one full run: login, staff directory and photos, student directory and
\* photos
InitRun ==
    /\ det = DetIdle /\ rt = RtIdle
    /\ people = <<>> /\ batch_limit = 0 /\ files \in RunDirs /\ pc = "idle" /\ idx = 0
    /\ downloaded = 0 /\ updated = 0 /\ skipped = 0 /\ failed = 0
    /\ existing_file = None /\ action_type = None /\ gets = 0 /\ served = "none"
    /\ outcome = <<>> /\ stats = None /\ run = 0 /\ clean = TRUE
    /\ events = <<>> /\ orphaned = {}
    /\ auth = AuthIdle /\ dirq = DirIdle /\ roster = RosterIdle /\ JobInit

NextRun ==
    \/ RunLogin \/ LoginGet \/ ParseForm \/ Submit \/ CheckMarkers \/ LoginReturn
    \/ StaffSession \/ StaffFetch \/ StaffPhotos \/ StaffReturn
    \/ PhasePause
    \/ StudentSession \/ StudentFetch \/ StudentPhotos \/ StudentReturn
    \/ WarmupGet \/ Pace \/ ApiPost \/ ParseJson
    \/ download_photos \/ Decide \/ Remove \/ Fetch \/ Write \/ Return
    \/ RunReturn

SpecRun == InitRun /\ [][NextRun]_vars

-----------------------------------------------------------------------------
(* Claims about the ChangeDetector *)

\* the token holds an underscore, ten digits, A or P, M in a row
EmbedsTimestamp(token) ==
    \E i \in 1..Len(token) :
        /\ i + 12 <= Len(token)
        /\ token[i] = "_"
        /\ \A k \in (i + 1)..(i + 10) : token[k] \in Digit
        /\ token[i + 11] \in {"A", "P"}
        /\ token[i + 12] = "M"

\* the part of a cached file's name between its last underscore and ".jpg"
FileTimestamp(f) ==
    LET stem == SubSeq(f, 1, Len(f) - Len(JpgExt))
        cut == {k \in 1..Len(stem) : stem[k] = "_"}
        last == CHOOSE k \in cut : \A j \in cut : j <= k
    IN  IF cut = {} THEN stem ELSE SubSeq(stem, last + 1, Len(stem))

DetDone == det.pc = "done"
DetMatches == glob(det.dir, det.code)
DetStamp == extract_timestamp_from_pv(det.pv)

\* C1: whatever the directory holds and whatever the display code is, a token
\* with no embedded timestamp (the empty token too) is never decided Skip:
\* the first result of should_update_photo is True.
C1_NoTimestampNeverSkip ==
    (DetDone /\ ~EmbedsTimestamp(det.pv)) => det.result[1] = TRUE

\* a token with no timestamp was decided while files of the code were cached
C1_Witness ==
    /\ DetDone
    /\ ~EmbedsTimestamp(det.pv)
    /\ det.pv # <<>>
    /\ DetMatches # {}

\* C3 as stated: a token with a timestamp, and some cached file of the display
\* code that carries a different timestamp, give Replace with a cached file of
\* the code named for deletion.
C3_Original ==
    (/\ DetDone
     /\ EmbedsTimestamp(det.pv)
     /\ \E f \in DetMatches : FileTimestamp(f) # DetStamp)
    => (det.result[1] = TRUE /\ det.result[2] \in DetMatches)

\* C3 amended: a token with a timestamp, at least one cached file matching
\* {displayCode}_*.jpg and none of them holding the token's timestamp in its
\* name give Replace with one of the matching files named for deletion.
C3_ReplaceWhenNoneCurrent ==
    (/\ DetDone
     /\ EmbedsTimestamp(det.pv)
     /\ DetMatches # {}
     /\ \A f \in DetMatches : ~Contains(f, DetStamp))
    => (det.result[1] = TRUE /\ det.result[2] \in DetMatches)

\* Replace was decided with two stale files to choose from
C3_Witness ==
    /\ DetDone
    /\ EmbedsTimestamp(det.pv)
    /\ Cardinality(DetMatches) >= 2
    /\ \A f \in DetMatches : ~Contains(f, DetStamp)
    /\ det.result[1] = TRUE
    /\ det.result[2] \in DetMatches

-----------------------------------------------------------------------------
(* Claims about the retry loops *)

RtDone == rt.pc = "done"
RtRequest == rt.fn = "_request_with_retry"
RtFetch == rt.fn = "_fetch_photo_with_retry"

\* the first n answers of the script are all the given answer
FirstAre(script, n, answer) == \A k \in 1..n : script[k] = answer

\* C6: _request_with_retry with max_retries = M: when the first N answers are
\* 429 and the next one is a success, N < M, the call returns the response
\* after exactly N + 1 attempts; when the first N answers are 429 with N >= M,
\* the call raises the 429 error after exactly M attempts.
C6_RetryBound ==
    (RtDone /\ RtRequest) =>
        \A N \in 0..Len(rt.script) :
            /\ (/\ N < rt.max_retries
                /\ FirstAre(rt.script, N, "429")
                /\ rt.script[N + 1] = Ok)
               => (rt.result.ret = "response" /\ rt.result.attempts = N + 1)
            /\ (N >= rt.max_retries /\ FirstAre(rt.script, N, "429"))
               => (/\ rt.result.ret = "raise"
                   /\ rt.result.error.kind = "429"
                   /\ rt.result.attempts = rt.max_retries)

\* two 429 answers, then a success within the budget
C6_Witness ==
    /\ RtDone /\ RtRequest
    /\ rt.max_retries = 3
    /\ FirstAre(rt.script, 2, "429")
    /\ rt.script[3] = Ok
    /\ rt.result.ret = "response"
    /\ rt.result.attempts = 3

Retryable == RetryableStatus \cup TimeoutOrConnection

\* every answer that was followed by another attempt was retryable, and an
\* HTTP error status outside 403/429 ended the call at the attempt it answered
OnlyRetryableRetried ==
    /\ \A k \in 1..(rt.result.attempts - 1) : rt.script[k] \in Retryable
    /\ \A k \in 1..rt.result.attempts :
           rt.script[k] \in HTTPErrors \ RetryableStatus =>
               /\ rt.result.attempts = k
               /\ rt.result.ret = "raise"
               /\ rt.result.error.kind = rt.script[k]
               /\ Len(rt.result.waits) = k - 1

\* C8 as stated: in both retry loops only 403, 429, timeouts and connection
\* errors are retried; any other HTTP error status propagates at once.
C8_Original == RtDone => OnlyRetryableRetried

\* C8 amended: in _request_with_retry only 403, 429, timeouts and connection
\* errors are retried and any other HTTP error status propagates right after
\* the attempt that produced it, with no wait; _fetch_photo_with_retry retries
\* every failed attempt, whatever the error, until its budget is spent.
C8_RetryPolicy ==
    /\ (RtDone /\ RtRequest) => OnlyRetryableRetried
    /\ (RtDone /\ RtFetch) =>
           /\ \A k \in 1..(rt.result.attempts - 1) : rt.script[k] # Ok
           /\ rt.result.ret = "raise" => rt.result.attempts = rt.max_retries

\* a 404 on the first of three attempts ended _request_with_retry at once
C8_Witness ==
    /\ RtDone /\ RtRequest
    /\ rt.max_retries = 3
    /\ rt.script[1] = "404"
    /\ rt.result.ret = "raise"
    /\ rt.result.attempts = 1

\* the call used up its whole budget and raised
Exhausted == RtDone /\ rt.result.ret = "raise" /\ rt.result.attempts = rt.max_retries

\* C9 as stated: on exhaustion the error raised is the last one encountered
\* and it carries the number of attempts made.
C9_Original ==
    Exhausted =>
        /\ rt.result.error.kind = rt.script[rt.result.attempts]
        /\ rt.result.error.tagged = {rt.result.attempts}

\* C9 amended: on exhaustion the error raised is the one of the last attempt,
\* re-raised as it is: no attempt count is attached to it.
C9_LastErrorUnchanged ==
    Exhausted =>
        /\ rt.result.error.kind = rt.script[rt.result.attempts]
        /\ rt.result.error.tagged = {}

\* three attempts failed with different errors
C9_Witness ==
    /\ Exhausted
    /\ rt.max_retries = 3
    /\ rt.script[1] # rt.script[3]
    /\ rt.script[2] # rt.script[3]

-----------------------------------------------------------------------------
(* Claims about download_photos *)

\* the loop has just finished with a person
Processed == pc = "loop" /\ idx > 1
Last == people[idx - 1]

\* the loop is about to decide for a person whose token has a timestamp that a
\* cached file matching the person's display code, raw or sanitised, holds
CachedCopyIsCurrent ==
    /\ pc = "loop"
    /\ idx <= Len(people)
    /\ EmbedsTimestamp(people[idx].pv)
    /\ \E f \in glob(files, people[idx].displayCode)
                \cup glob(files, safe_name(people[idx].displayCode)) :
           Contains(f, extract_timestamp_from_pv(people[idx].pv))

\* C2: a person whose token has a timestamp that a cached file of their
\* display code already holds in its name is skipped: `skipped` goes up by
\* one, no photo GET is issued for them, no file changes, and the loop moves
\* on to the next person.
C2_CurrentIsSkippedWithoutRequest ==
    [][CachedCopyIsCurrent =>
          /\ skipped' = skipped + 1
          /\ outcome' = Append(outcome, "skipped")
          /\ gets' = 0
          /\ files' = files
          /\ pc' = "loop"
          /\ idx' = idx + 1
          /\ failed' = failed /\ downloaded' = downloaded /\ updated' = updated]_vars

\* a person with a stamped token was skipped
C2_Witness ==
    /\ Processed
    /\ EmbedsTimestamp(Last.pv)
    /\ outcome[idx - 1] = "skipped"
    /\ gets = 0

\* C4: right after a person whose decision was Replace has been downloaded and
\* written, exactly one file matching that person's display code is in the
\* directory, however many stale files there were.
C4_OneFileAfterReplace ==
    (Processed /\ outcome[idx - 1] = "updated")
    => Cardinality(glob(files, safe_name(Last.displayCode))) = 1

\* every token of the batch has a timestamp
AllStamped == \A i \in 1..Len(people) : EmbedsTimestamp(people[i].pv)

\* no two persons of the batch share a sanitised display code
CodesUnique ==
    \A i, j \in 1..Len(people) :
        i # j => safe_name(people[i].displayCode) # safe_name(people[j].displayCode)

\* C5: when download_photos has run twice in a row on the same person list
\* and directory with the same tokens, the second run skips everyone:
\* skipped == total_processed and downloaded == updated == 0. Stated for the
\* batches on which a freshness signal exists at all: unique display codes,
\* every token stamped, nobody failed in the first run.
C5_SecondRunSkipsAll ==
    (pc = "returned" /\ run = 2 /\ clean /\ AllStamped /\ CodesUnique)
    => (/\ stats.skipped = stats.total_processed
        /\ stats.downloaded = 0
        /\ stats.updated = 0)

Count(seq, x) == Cardinality({i \in 1..Len(seq) : seq[i] = x})

\* C7: an exception while one person is processed is caught and counted in
\* `failed` once, and the persons after are still processed: when the batch
\* returns, every person has an outcome, failed is the number of persons whose
\* processing raised, and total_processed is the batch size.
C7_FailureIsIsolated ==
    /\ (pc = "loop" /\ idx <= Len(people) + 1)
       => (Len(outcome) = idx - 1 /\ failed = Count(outcome, "failed"))
    /\ pc \in {"remove", "fetch", "write"}
       => (Len(outcome) = idx - 1 /\ idx <= Len(people))
    /\ pc = "returned"
       => (/\ Len(outcome) = Len(people)
           /\ stats.total_processed = Len(people)
           /\ stats.failed = Count(outcome, "failed"))

\* the first person failed and the second was downloaded or updated
C7_Witness ==
    /\ pc = "returned"
    /\ Len(people) = 2
    /\ outcome[1] = "failed"
    /\ outcome[2] \in {"downloaded", "updated"}
    /\ stats.failed = 1
    /\ stats.total_processed = 2

\* C10: when the decision for a person is Create or Replace and the portal
\* answers the photo GET with success, the body is written to the person's
\* file and the person is counted in `downloaded` or `updated`, not in
\* `failed`. Stated for the standalone module's download_photos.
C10_SuccessfulGetIsWritten ==
    (Processed /\ served = Ok)
    => (/\ outcome[idx - 1] \in {"downloaded", "updated"}
        /\ _generate_filename(Last.displayCode, Last.pv) \in files)

\* the twelve characters after the first underscore of the token that is
\* followed by ten digits, A or P, and M; "unknown" when there is none
StampOrUnknown(token) ==
    IF ~EmbedsTimestamp(token) THEN <<"u", "n", "k", "n", "o", "w", "n">>
    ELSE LET at(i) == /\ i + 12 <= Len(token)
                      /\ token[i] = "_"
                      /\ \A k \in (i + 1)..(i + 10) : token[k] \in Digit
                      /\ token[i + 11] \in {"A", "P"}
                      /\ token[i + 12] = "M"
             first == CHOOSE i \in 1..Len(token) :
                          at(i) /\ \A j \in 1..(i - 1) : ~at(j)
         IN  [k \in 1..12 |-> token[first + k]]

\* the first eight characters of the token, or all of it when it is shorter
First8(token) == [k \in 1..(IF Len(token) < 8 THEN Len(token) ELSE 8) |-> token[k]]

\* {code}_{first 8 characters of the token}_{timestamp}.jpg
NamedFor(code, token) ==
    code \o <<"_">> \o First8(token) \o <<"_">> \o StampOrUnknown(token)
         \o <<".", "j", "p", "g">>

\* the display code with every character dropped that is not a letter, a
\* digit, a space, a hyphen or an underscore, then without the spaces at its
\* two ends
Sanitised(code) ==
    LET kept == SelectSeq(code, LAMBDA c : c \in Digit \cup Letter \cup {" ", "-", "_"})
        inner == {k \in 1..Len(kept) : kept[k] # " "}
        lo == CHOOSE k \in inner : \A j \in inner : k <= j
        hi == CHOOSE k \in inner : \A j \in inner : j <= k
    IN  IF inner = {} THEN <<>> ELSE [k \in 1..(hi - lo + 1) |-> kept[lo + k - 1]]

\* the loop has just written the last person's photo
JustWritten == Processed /\ outcome[idx - 1] \in {"downloaded", "updated"}

JSMITH == <<"J", "S", "M", "I", "T", "H">>
ExampleToken ==
    <<"a", "b", "1", "2", "c", "d", "3", "4", "_",
      "2", "5", "0", "2", "2", "5", "0", "2", "5", "8", "A", "M", "?", "x", "=", "y">>
ExampleName ==
    <<"J", "S", "M", "I", "T", "H", "_", "a", "b", "1", "2", "c", "d", "3", "4", "_",
      "2", "5", "0", "2", "2", "5", "0", "2", "5", "8", "A", "M", ".", "j", "p", "g">>

\* C11 as stated: the file written for a person is named
\* {displayCode}_{first 8 characters of the token}_{timestamp}.jpg, the
\* timestamp being the first stamp of the token or "unknown".
C11_Original ==
    JustWritten => NamedFor(Last.displayCode, Last.pv) \in files

\* C11 amended: the file written for a person is named
\* {sanitised displayCode}_{first 8 characters of the token}_{timestamp}.jpg,
\* the sanitised display code being the display code without the characters
\* that are not letters, digits, spaces, hyphens or underscores and without
\* surrounding whitespace; displayCode JSMITH with the token
\* ab12cd34_2502250258AM?x=y gives JSMITH_ab12cd34_2502250258AM.jpg.
C11_FileName ==
    /\ JustWritten => NamedFor(Sanitised(Last.displayCode), Last.pv) \in files
    /\ _generate_filename(JSMITH, ExampleToken) = ExampleName
    /\ extract_timestamp_from_pv(ExampleToken) = SubSeq(ExampleName, 17, 28)

\* a stamped photo of a person whose display code holds a dot was written
C11_Witness ==
    /\ JustWritten
    /\ Last.displayCode = CodeAB
    /\ EmbedsTimestamp(Last.pv)
    /\ NamedFor(<<"A", "_", "B">>, Last.pv) \in files

-----------------------------------------------------------------------------
(* Claims about the authenticator *)

AuthEnded == auth.pc \in {"Authenticated", "Failed"}

\* the credential POST was sent and its last answer passed the status check
PostSucceeded == auth.posts # <<>> /\ auth.posts[Len(auth.posts)] = "200"

\* the text holds one of the three markers of an authenticated page
MarkerIn(text) ==
    \E marker \in {MarkerHome, MarkerNavBar, MarkerMfe} :
        \E k \in 0..(Len(text) - Len(marker)) :
            \A j \in 1..Len(marker) : text[k + j] = marker[j]

CredentialFailure(error) == error.kind = "Exception: Login failed"

\* C13: get_authenticated_session returns a session if and only if the
\* credential POST finished with a success status and the body of its answer
\* holds at least one of the three markers; a successful POST whose body holds
\* none of them ends in Failed with the "login failed" error and no session.
C13_SessionIffMarker ==
    /\ ~AuthEnded => auth.session = "none"
    /\ AuthEnded =>
          /\ (auth.session = "session") <=> (PostSucceeded /\ MarkerIn(auth.body))
          /\ (auth.session = "session") <=> (auth.pc = "Authenticated")
          /\ (PostSucceeded /\ ~MarkerIn(auth.body))
             => (/\ auth.pc = "Failed"
                 /\ CredentialFailure(auth.error)
                 /\ auth.session = "none")

\* a session was returned for a body that holds the second marker only, the
\* POST having been answered 429 first
C13_Witness ==
    /\ auth.pc = "Authenticated"
    /\ auth.session = "session"
    /\ auth.body = NavBody
    /\ auth.posts = <<"429", "200">>

\* the login page GET was sent and did not end with a success status
LoginGetFailed == auth.pc = "Failed" /\ auth.gets >= 1 /\ auth.got # "200"

\* what the caller can tell from the error: the RuntimeError that names an
\* access/network issue, or the requests exception of the failed request
\* itself, are access/network failures; the "login failed" and "no login
\* form" exceptions are not
AccessOrNetwork(error) ==
    \/ error.kind = "RuntimeError: access/network issue"
    \/ error.kind \in {"403", "404", "429", "Timeout", "ConnectionError", "TooManyRedirects"}

\* C14: every failure of the login page GET (an HTTP error status, a timeout
\* or a connection error, after the retries) reaches the caller as an
\* access/network failure and never as the credential failure: a 403 or 429,
\* a timeout or a connection error that outlasts the attempts is raised as
\* the RuntimeError naming an access/network issue, any other HTTP error
\* status is raised at once as the HTTP error itself, no POST is sent and no
\* session returned; and the credential failure is raised only after the
\* login page was loaded.
C14_LoginGetFailureIsAccess ==
    /\ LoginGetFailed =>
          /\ AccessOrNetwork(auth.error)
          /\ ~CredentialFailure(auth.error)
          /\ auth.posts = <<>>
          /\ auth.session = "none"
          /\ auth.got \in {"403", "429", "Timeout"}
             => (/\ auth.error.kind = "RuntimeError: access/network issue"
                 /\ auth.gets = auth.max_retries)
          /\ auth.got = "404" => auth.error.kind = "404"
    /\ CredentialFailure(auth.error) => (auth.got = "200" /\ PostSucceeded)

\* the login page answered 403 to each of three attempts
C14_Witness ==
    /\ LoginGetFailed
    /\ auth.max_retries = 3
    /\ auth.gets = 3
    /\ auth.got = "403"
    /\ auth.error.kind = "RuntimeError: access/network issue"

Rank(state) ==
    CASE state = "Init" -> 0
      [] state = "LoginPageFetched" -> 1
      [] state = "FormParsed" -> 2
      [] state = "CredentialsSubmitted" -> 3
      [] state = "Authenticated" -> 4
      [] state = "Failed" -> 4

\* C15: the authenticator moves only forward through Init, LoginPageFetched,
\* FormParsed, CredentialsSubmitted and then Authenticated or Failed: each
\* step goes to the next state of the chain or to Failed; a POST is sent only
\* from FormParsed, after the login page GET succeeded and a form was found
\* in the page; GETs are sent only from Init; a page with no form ends the
\* run with the "no login form found" error, with no POST sent and no
\* further GET.
C15_ForwardOnly ==
    /\ [][auth' # auth =>
            /\ Rank(auth'.pc) > Rank(auth.pc)
            /\ auth'.pc # "Failed" => Rank(auth'.pc) = Rank(auth.pc) + 1
            /\ Len(auth'.posts) > Len(auth.posts)
               => (auth.pc = "FormParsed" /\ auth.got = "200" /\ auth.page # <<>>)
            /\ auth'.gets > auth.gets => auth.pc = "Init"
            /\ (auth.pc = "LoginPageFetched" /\ auth.page = <<>>)
               => (/\ auth'.pc = "Failed"
                   /\ auth'.error.kind = "Exception: No login form found"
                   /\ auth'.posts = <<>>
                   /\ auth'.gets = auth.gets)]_vars
    /\ [](auth.posts # <<>> => (auth.got = "200" /\ auth.page # <<>>))

\* a page with no form was loaded at the second attempt and the run failed
\* with the structural error
C15_Witness ==
    /\ auth.pc = "Failed"
    /\ auth.page = <<>>
    /\ auth.gets = 2
    /\ auth.got = "200"
    /\ auth.error.kind = "Exception: No login form found"
    /\ auth.posts = <<>>

\* C16: the payload of the credential POST holds every named input field of
\* the first form with the value the server supplied, except that username
\* and password are the caller's credentials, whether or not the form has
\* fields of those names.
C16_PayloadKeepsEveryField ==
    \A k \in 1..Len(auth.sent) :
        LET payload == auth.sent[k]
            form == auth.page[1]
        IN  /\ "username" \in DOMAIN payload /\ payload["username"] = "user@school"
            /\ "password" \in DOMAIN payload /\ payload["password"] = "secret"
            /\ \A i \in 1..Len(form) :
                  form[i].name \notin {NoAttr, "username", "password"}
                  => (/\ form[i].name \in DOMAIN payload
                      /\ payload[form[i].name] =
                            (IF form[i].value = NoAttr THEN "" ELSE form[i].value))

\* the positions of the form's inputs that carry the name
Named(form, name) == {i \in 1..Len(form) : form[i].name = name}

\* C16 amended: the payload of the credential POST holds, for every name that
\* an input field of the first form carries, the value the server supplied
\* for the last field of that name (the empty string when the field has no
\* value), and nothing else, except that username and password are the
\* caller's credentials, whether or not the form has fields of those names.
C16_PayloadLastValuePerName ==
    \A k \in 1..Len(auth.sent) :
        LET payload == auth.sent[k]
            form == auth.page[1]
            names == {form[i].name : i \in 1..Len(form)} \ {NoAttr, ""}
        IN  /\ DOMAIN payload = names \cup {"username", "password"}
            /\ payload["username"] = "user@school"
            /\ payload["password"] = "secret"
            /\ \A name \in names \ {"username", "password"} :
                  LET last == CHOOSE i \in Named(form, name) :
                                  \A j \in Named(form, name) : j <= i
                  IN  payload[name] =
                         (IF form[last].value = NoAttr THEN "" ELSE form[last].value)

\* a form with a username field and a hidden field was submitted
C16_Witness ==
    /\ auth.sent # <<>>
    /\ auth.page[1] = <<Input("username", "v1"), Input("__VIEWSTATE", "v2")>>
    /\ auth.sent[1]["username"] = "user@school"
    /\ auth.sent[1]["__VIEWSTATE"] = "v2"

\* every answer to the credential POST was 403 or 429
AllDenied == auth.posts # <<>> /\ \A k \in 1..Len(auth.posts) : auth.posts[k] \in {"403", "429"}

-----------------------------------------------------------------------------
(* Claims about the directory flows *)

\* the positions of the trace that hold an event of the kind
At(trace, op) == {k \in 1..Len(trace) : trace[k].op = op}

\* the positions of the trace that hold the pacing delay
Pacing(trace) == {k \in 1..Len(trace) : trace[k] = [op |-> "sleep", what |-> "pacing"]}

\* C18: in get_staff_data and in get_student_data the events come in the
\* order warm-up GET, pacing delay, API POST, JSON parse: every API POST
\* comes after a warm-up GET that succeeded and after the pacing delay that
\* follows it, no GET comes after the pacing delay, the JSON is parsed only
\* after an API POST that succeeded, and when the warm-up GET fails after its
\* retries no API POST is issued.
C18_WarmupPaceApiParse ==
    LET t == dirq.trace
    IN  /\ \A p \in At(t, "POST") :
              \E g \in At(t, "GET") : \E d \in Pacing(t) :
                  g < d /\ d < p /\ t[g].what = "200"
        /\ \A d \in Pacing(t) : \A g \in At(t, "GET") : g < d
        /\ Cardinality(Pacing(t)) <= 1
        /\ \A j \in At(t, "json") :
              /\ j = Len(t)
              /\ \E p \in At(t, "POST") : p < j /\ t[p].what = "200"
        /\ (dirq.pc = "raised" /\ \A g \in At(t, "GET") : t[g].what # "200")
           => At(t, "POST") = {}
        /\ dirq.pc = "returned"
           => (At(t, "GET") # {} /\ Pacing(t) # {} /\ At(t, "POST") # {} /\ At(t, "json") # {})

\* get_student_data returned after a retried warm-up GET and a retried API POST
C18_Witness ==
    /\ dirq.fn = "get_student_data"
    /\ dirq.pc = "returned"
    /\ \E g \in At(dirq.trace, "GET") : dirq.trace[g].what = "403"
    /\ \E p \in At(dirq.trace, "POST") : dirq.trace[p].what = "Timeout"
    /\ dirq.trace[Len(dirq.trace)] = [op |-> "json", what |-> "parsed"]

-----------------------------------------------------------------------------
(* Claims about the person lists *)

\* the photo-token field of a directory entry as the flow reads it: pv for
\* staff; for students the first of pv, photoUrl, photo that is there and
\* not empty
TokenField(fn, e) ==
    IF fn = "get_staff_photos" THEN e.pv
    ELSE IF e.pv # Absent /\ e.pv # <<>> THEN e.pv
    ELSE IF e.photoUrl # Absent /\ e.photoUrl # <<>> THEN e.photoUrl
    ELSE e.photo

\* the field is missing, empty or made of whitespace only
Blank(t) == t = Absent \/ \A k \in 1..Len(t) : t[k] = " "

\* the token is not empty and has no whitespace at either end
Trimmed(t) == t # <<>> /\ t[1] # " " /\ t[Len(t)] # " "

\* the person list of the response as the flow reads it
ListOf(fn, data) ==
    IF fn = "get_staff_photos" /\ data.shape # "d" THEN <<>> ELSE data.entries

\* C12: every person record get_staff_photos or get_student_photos puts into
\* its map or hands to download_photos has a token that is not empty and has
\* no leading or trailing whitespace; the entries whose photo-token field is
\* missing, empty or whitespace-only are left out of both, and the other
\* entries are kept in order with their token stripped (up to the limit).
C12_OnlyTrimmedTokens ==
    roster.pc = "built" =>
        LET list == ListOf(roster.fn, roster.data)
            kept == SelectSeq(list, LAMBDA e : ~Blank(TokenField(roster.fn, e)))
        IN  /\ \A i \in 1..Len(roster.records) : Trimmed(roster.records[i].pv)
            /\ \A c \in DOMAIN roster.map :
                  \E i \in 1..Len(roster.records) :
                      /\ roster.records[i].displayCode = c
                      /\ roster.map[c] = CdnUrl \o roster.records[i].pv
            /\ Len(roster.records) =
                  (IF roster.limit # 0 /\ roster.limit < Len(kept)
                   THEN roster.limit ELSE Len(kept))
            /\ \A i \in 1..Len(roster.records) :
                  LET t == TokenField(roster.fn, kept[i])
                      inner == {k \in 1..Len(t) : t[k] # " "}
                  IN  \A k \in 1..Len(roster.records[i].pv) :
                          roster.records[i].pv[k] =
                              t[(CHOOSE m \in inner : \A n \in inner : m <= n) + k - 1]

\* a whitespace-only entry was left out and a padded token was stripped
C12_Witness ==
    /\ roster.pc = "built"
    /\ roster.fn = "get_staff_photos"
    /\ roster.data.shape = "d"
    /\ Len(roster.data.entries) = 2
    /\ roster.data.entries[1].pv = <<" ">>
    /\ roster.data.entries[2].pv = <<" ">> \o K1 \o <<" ">>
    /\ Len(roster.records) = 1
    /\ roster.records[1].pv = K1

-----------------------------------------------------------------------------
(* Claims about a full run *)

\* the phases of the log that send requests with a session
Phases(log) == {k \in 1..Len(log) : log[k].phase # "pause"}

Logins(log) == {k \in 1..Len(log) : log[k].phase = "login"}

\* C19: during one full run (get_all_photos, or main of run.py) the login
\* sequence is performed exactly once, before anything else, and the session
\* it returned is the one the staff directory fetch, the student directory
\* fetch and every photo download of the run use.
C19_OneLoginOneSession ==
    /\ job.logins <= 1
    /\ job.pc # "start" => (job.logins = 1 /\ Logins(job.log) = {1})
    /\ job.session \in {0, 1}
    /\ \A k \in Phases(job.log) : job.log[k].session = 1
    /\ dirq.pc # "idle" => (dirq.session = 1 /\ job.session = 1)
    /\ pc # "idle" => job.session = 1
    /\ job.pc = "done"
       => (/\ \E k \in Phases(job.log) : job.log[k].phase = "staff_dir"
           /\ \E k \in Phases(job.log) : job.log[k].phase = "student_dir"
           /\ job.download
              => (/\ \E k \in Phases(job.log) : job.log[k].phase = "staff_photos"
                  /\ \E k \in Phases(job.log) : job.log[k].phase = "student_photos"))

\* a downloading run finished, with a photo written in each phase
C19_Witness ==
    /\ job.pc = "done"
    /\ job.download
    /\ job.logins = 1
    /\ job.staff_results.download_stats # <<>>
    /\ job.staff_results.download_stats[1].downloaded >= 1
    /\ job.student_results.download_stats # <<>>
    /\ job.student_results.download_stats[1].downloaded
         + job.student_results.download_stats[1].updated >= 1

\* the phases the log holds
Started(log) == {log[k].phase : k \in 1..Len(log)}

\* C20: in get_all_photos every error that is not a per-item download error
\* reaches the caller and ends the run: a failed login or a failed directory
\* call aborts the run with that very error and nothing is done after the
\* abort; when the login fails no directory request has been or is issued,
\* and when the staff directory fetch fails no student directory request and
\* no photo download has been or is issued; a person whose download fails
\* does not abort the run.
C20_ErrorsAbortTheRun ==
    /\ [][/\ job.pc # "aborted"
          /\ (job.pc = "auth" /\ auth.pc = "Failed")
             => (job'.pc = "aborted" /\ job'.error = auth.error)
          /\ dirq.pc = "raised"
             => (job'.pc = "aborted" /\ job'.error = dirq.error)]_vars
    /\ [](job.pc = "aborted" =>
            /\ job.error # NoError
            /\ auth.pc = "idle" /\ dirq.pc = "idle" /\ pc = "idle"
            /\ job.log[Len(job.log)].phase \in {"login", "staff_dir", "student_dir"}
            /\ job.log[Len(job.log)].phase = "login"
               => Started(job.log) = {"login"}
            /\ job.log[Len(job.log)].phase = "staff_dir"
               => (Started(job.log) = {"login", "staff_dir"} /\ stats = None))
    /\ [](job.pc = "done" => job.error = NoError)

\* the staff directory API answered 404 and the run was aborted with that error
C20_Witness ==
    /\ job.pc = "aborted"
    /\ job.error.kind = "404"
    /\ Len(job.log) = 2
    /\ job.log[2].phase = "staff_dir"
    /\ files = {}

\* the parsed response does not hold what the flow reads the persons from:
\* for staff the list key `d`; for students the key `d`, a list, or a record
\* with at least one of the person fields
FieldMissing(fn, data) ==
    IF fn = "get_staff_data" THEN data.shape # "d"
    ELSE /\ data.shape = "object"
         /\ data.entries[1] = Entry(Absent, Absent, Absent, Absent, Absent)

\* C21: a directory response in which the expected JSON field is missing (a
\* staff response object without the list key `d`, a student response that is
\* an object with neither `d` nor any person field) is a fatal structural
\* error: the run is aborted with an error and is not continued with an
\* empty person list.
C21_MissingFieldIsFatal ==
    [][\A phase \in {"staff", "student"} :
          (/\ job.pc = phase \o "_data"
           /\ dirq.pc = "returned"
           /\ FieldMissing(dirq.fn, dirq.data))
          => (job'.pc = "aborted" /\ job'.error # NoError)]_vars

\* C22: the statistics of the run that get_all_photos (download=True) returns
\* and main of run.py computes are, for each of total_processed, downloaded,
\* updated, skipped and failed, the sum of that field of the statistics
\* download_photos returned for the staff batch and of that field of the
\* statistics it returned for the student batch.
C22_RunStatsAreSums ==
    (job.pc = "done" /\ job.download) =>
        /\ job.staff_results.download_stats # <<>>
        /\ job.student_results.download_stats # <<>>
        /\ Len(job.download_stats) = 1
        /\ LET staff == job.staff_results.download_stats[1]
               student == job.student_results.download_stats[1]
               total == job.download_stats[1]
           IN  /\ total.total_processed = staff.total_processed + student.total_processed
               /\ total.downloaded = staff.downloaded + student.downloaded
               /\ total.updated = staff.updated + student.updated
               /\ total.skipped = staff.skipped + student.skipped
               /\ total.failed = staff.failed + student.failed

\* a run finished in which the staff batch downloaded a new photo and the
\* student batch replaced one
C22_Witness ==
    /\ job.pc = "done"
    /\ job.download
    /\ job.staff_results.download_stats # <<>>
    /\ job.staff_results.download_stats[1].downloaded = 1
    /\ job.student_results.download_stats # <<>>
    /\ job.student_results.download_stats[1].updated = 1
    /\ job.download_stats # <<>>
    /\ job.download_stats[1].total_processed = 2
    /\ job.download_stats[1].downloaded = 1
    /\ job.download_stats[1].updated = 1

\* the display codes of the persons the response lists with a photo token
CodesWithPhoto(fn, data) ==
    {PeopleOf(fn, data, 0)[i].displayCode : i \in 1..Len(PeopleOf(fn, data, 0))}

\* C23: with download=False, get_staff_photos and get_student_photos (called
\* by get_all_photos with that flag) return only the map from display code
\* to photo URL, with no download statistics: no photo GET is issued,
\* download_photos is not entered and no file of the photo directory is
\* created, deleted or modified; the run returns no statistics either.
C23_NoDownloadNoFileChange ==
    /\ [][~job.download =>
            /\ files' = files
            /\ gets' = gets
            /\ pc' = pc
            /\ \A phase \in {"staff", "student"} :
                  (job.pc = phase \o "_data" /\ dirq.pc = "returned")
                  => LET results == IF phase = "staff" THEN job'.staff_results
                                    ELSE job'.student_results
                     IN  /\ results.download_stats = <<>>
                         /\ DOMAIN results.map =
                               CodesWithPhoto("get_" \o phase \o "_photos", dirq.data)]_vars
    /\ [](~job.download =>
            /\ pc = "idle"
            /\ gets = 0
            /\ stats = None
            /\ job.staff_results.download_stats = <<>>
            /\ job.student_results.download_stats = <<>>
            /\ job.download_stats = <<>>)

\* a run without download finished with a person in each map while the
\* directory held a photo that the staff member's token has outdated
C23_Witness ==
    /\ job.pc = "done"
    /\ ~job.download
    /\ CodeA \in DOMAIN job.staff_results.map
    /\ job.staff_results.map[CodeA] = CdnUrl \o K1
    /\ DOMAIN job.student_results.map # {}
    /\ files = {_generate_filename(CodeA, K2)}

-----------------------------------------------------------------------------
(* Claims about the order of the steps of download_photos *)

\* the positions of the current person's events that are of the kind
EventsOf(op) == {k \in 1..Len(events) : events[k].op = op}

\* the decision for the current person was Replace and the loop is past the
\* delete
Replacing == action_type = "updated" /\ pc \in {"fetch", "write"}

\* C24: for a Replace decision download_photos deletes the existing file
\* before it issues the photo GET and writes the new file only after the GET
\* has succeeded: a file leaves the directory only at the delete step, with
\* no GET issued and nothing written for the person yet; GETs are issued only
\* at the download step, for a Replace with the old file already gone; a
\* write comes only after a GET that was answered with success; and no
\* delete comes after a GET or a write.
C24_DeleteBeforeDownload ==
    /\ [][/\ files \ files' # {}
             => (/\ pc = "remove"
                 /\ files \ files' = {existing_file}
                 /\ gets = 0
                 /\ EventsOf("GET") = {} /\ EventsOf("write") = {})
          /\ gets' > gets
             => (/\ pc = "fetch"
                 /\ action_type = "updated" => existing_file \notin files)
          /\ (EventsOf("write") = {} /\ EventsOf("write")' # {})
             => (pc = "write" /\ gets >= 1 /\ served = "200")]_vars
    /\ [](/\ \A r \in EventsOf("remove") :
                \A k \in EventsOf("GET") \cup EventsOf("write") : r < k
          /\ \A w \in EventsOf("write") :
                /\ served = "200"
                /\ \E g \in EventsOf("GET") : g < w
                /\ \A g \in EventsOf("GET") : g < w
          /\ Replacing => (EventsOf("remove") # {} /\ existing_file \notin files))

\* a stale photo was replaced: removed, then fetched at the second attempt,
\* then written
C24_Witness ==
    /\ pc = "loop"
    /\ idx > 1
    /\ outcome[idx - 1] = "updated"
    /\ gets = 2
    /\ existing_file \notin files
    /\ events[1].op = "remove"
    /\ events[Len(events)].op = "write"
    /\ Cardinality(EventsOf("GET")) = 2

\* C25: when the processing of a Replace stopped between the delete and the
\* write (the process was stopped, or the download or the write failed after
\* the old file was removed), the ChangeDetector's decision for that person
\* in the next run, with the same token, is Create: a download with no file
\* named for deletion.
C25_OrphanIsCreatedNextRun ==
    [][(pc = "loop" /\ idx <= Len(people) /\ idx \in orphaned)
          => (/\ pc' = "fetch"
              /\ action_type' = "downloaded"
              /\ existing_file' = None)]_vars

\* C26: download_photos emits a progress notification every 25 processed
\* persons: whenever the loop has just finished with the person number 25 * k
\* of the batch, k >= 1, a progress notification was emitted for that
\* person, whether the person was skipped, downloaded, updated or failed.
C26_ProgressEvery25 ==
    (pc = "loop" /\ idx > 1 /\ (idx - 1) % 25 = 0)
    => \E k \in 1..Len(events) : events[k] = [op |-> "print", what |-> "progress"]

\* C30: in download_photos a file is deleted only as part of a Replace
\* decision whose token carries a timestamp that differs from the timestamp
\* in the name of the deleted file, the deleted file being the one the
\* ChangeDetector named, cached under the person's (sanitised) display code;
\* and when the decision for a person is Skip no file of the directory is
\* created, deleted or modified and no photo GET is issued.
C30_CacheLifecycle ==
    [][/\ files \ files' # {}
          => (/\ pc = "remove"
              /\ action_type = "updated"
              /\ files \ files' = {existing_file}
              /\ files' \ files = {}
              /\ EmbedsTimestamp(people[idx].pv)
              /\ FileTimestamp(existing_file) # StampOrUnknown(people[idx].pv)
              /\ \E k \in 1..Len(existing_file) :
                    [j \in 1..k |-> existing_file[j]]
                       = Sanitised(people[idx].displayCode) \o <<"_">>)
       /\ (pc = "loop" /\ idx <= Len(people) /\ outcome' = Append(outcome, "skipped"))
          => (/\ files' = files
              /\ gets' = 0
              /\ events' = <<>>
              /\ pc' = "loop")]_vars

\* the first person was skipped with the cached photo left as it was, the
\* stale photo of the second was deleted and replaced
C30_Witness ==
    /\ pc = "loop"
    /\ idx = 3
    /\ outcome = <<"skipped", "updated">>
    /\ existing_file \notin files
    /\ FileTimestamp(existing_file) = TS2
    /\ people[2].pv = K1
    /\ _generate_filename(people[1].displayCode, people[1].pv) \in files

-----------------------------------------------------------------------------
(* Claims about the delays before requests *)

\* the sleeps of _human_delay: base + random.uniform(0, jitter) seconds
Randomized == {"pre-request", "pacing", "pre-download"}

\* the sleeps of a fixed number of seconds before and after the login page
Fixed == {"initial_delay", "post_delay"}

\* Every request of the kind in the trace comes right after a sleep: the
\* first one after a sleep of one of the given kinds, each later one (another
\* attempt of the same operation) after the wait of the retry loop.
Preceded(trace, op, kinds) ==
    \A k \in 1..Len(trace) :
        trace[k].op = op =>
            /\ k > 1
            /\ trace[k - 1].op = "sleep"
            /\ IF \A j \in 1..(k - 1) : trace[j].op # op
               THEN trace[k - 1].what \in kinds
               ELSE trace[k - 1].what = "retry"

\* C27 as stated: the randomized pre-request delay comes before the login
\* page fetch, before each warm-up page fetch, before each directory API call
\* and before each photo download, and never before the credential POST,
\* which comes after the fixed post-delay that follows the login page load.
C27_Original ==
    /\ Preceded(auth.trace, "GET", Randomized)
    /\ Preceded(dirq.trace, "GET", Randomized)
    /\ Preceded(dirq.trace, "POST", Randomized)
    /\ Preceded(events, "GET", Randomized)
    /\ Preceded(auth.trace, "POST", {"post_delay"})

\* C27 amended: the login page fetch comes after the fixed initial delay and
\* not after a randomized one; each warm-up page fetch, each directory API
\* call and each photo download comes after the randomized pre-request delay
\* (base + uniform(0, jitter)), which is applied once, before the first
\* attempt, the later attempts coming after the waits of the retry loop; no
\* randomized delay is applied anywhere in the login, and the credential
\* POST comes after the fixed post-delay that follows the login page load.
C27_DelaysBeforeRequests ==
    /\ Preceded(auth.trace, "GET", {"initial_delay"})
    /\ Preceded(auth.trace, "POST", {"post_delay"})
    /\ \A k \in 1..Len(auth.trace) : auth.trace[k].what \notin Randomized
    /\ \A p \in 1..Len(auth.trace) :
          auth.trace[p].op = "POST"
          => \E d \in 1..(p - 1) :
                /\ auth.trace[d].what = "post_delay"
                /\ \A g \in 1..Len(auth.trace) : auth.trace[g].op = "GET" => g < d
    /\ Preceded(dirq.trace, "GET", {"pre-request"})
    /\ Preceded(dirq.trace, "POST", {"pre-request"})
    /\ Preceded(events, "GET", {"pre-download"})
    /\ \A k \in 1..Len(events) : events[k].what \notin Fixed

\* a login in which the page was fetched at the second attempt and the
\* credentials were posted once
C27_Witness ==
    /\ job.pc = "auth"
    /\ auth.pc = "Authenticated"
    /\ Len(auth.trace) = 6
    /\ auth.trace[1] = [op |-> "sleep", what |-> "initial_delay"]
    /\ auth.trace[2].op = "GET"
    /\ auth.trace[3] = [op |-> "sleep", what |-> "retry"]
    /\ auth.trace[4].op = "GET"
    /\ auth.trace[5] = [op |-> "sleep", what |-> "post_delay"]
    /\ auth.trace[6].op = "POST"

-----------------------------------------------------------------------------
(* Claims about the student list *)

\* the first of the fields pv, photoUrl, photo that is there and not empty
FirstNonEmpty(e) ==
    IF e.pv \notin {Absent, <<>>} THEN e.pv
    ELSE IF e.photoUrl \notin {Absent, <<>>} THEN e.photoUrl
    ELSE IF e.photo \notin {Absent, <<>>} THEN e.photo
    ELSE <<>>

\* a token is there under one of the three aliases
Available(e) == \E t \in {e.pv, e.photoUrl, e.photo} : ~Blank(t)

\* C28: get_student_photos takes the person list from `d`, else the payload
\* when it is a list, else the one-element list of the payload; every student
\* with a token under one of the aliases pv, photoUrl, photo is in the
\* result, in order, with the first non-empty of the three as the token,
\* displayCode else code as the display code, and n else name as the name.
C28_StudentNormalisation ==
    (roster.pc = "built" /\ roster.fn = "get_student_photos" /\ roster.limit = 0) =>
        LET list == IF roster.data.shape \in {"d", "list"} THEN roster.data.entries
                    ELSE <<roster.data.entries[1]>>
            included == SelectSeq(list, Available)
        IN  /\ Len(roster.records) = Len(included)
            /\ Len(roster.names) = Len(included)
            /\ \A i \in 1..Len(included) :
                  LET e == included[i]
                  IN  /\ i <= Len(roster.records)
                      /\ roster.records[i].pv = strip(FirstNonEmpty(e))
                      /\ roster.records[i].displayCode =
                            (IF e.displayCode # Absent THEN e.displayCode
                             ELSE IF e.code # Absent THEN e.code ELSE UNKNOWN)
                      /\ roster.names[i] =
                            (IF e.n # Absent THEN e.n
                             ELSE IF e.name # Absent THEN e.name ELSE UnknownName)
            /\ \A k \in 1..Len(included) :
                  \E c \in DOMAIN roster.map :
                      c = (IF included[k].displayCode # Absent
                           THEN included[k].displayCode
                           ELSE IF included[k].code # Absent
                                THEN included[k].code ELSE UNKNOWN)

-----------------------------------------------------------------------------
(* Claims about the waits of the retry loops *)

\* no entry of the table is smaller than an earlier one
Escalating(table) ==
    \A i, j \in 1..Len(table) : i < j => table[i] <= table[j]

\* C29: in every retry loop the wait after the k-th failed attempt that is
\* tried again is the k-th entry of the delay table, the last entry when k
\* is beyond the table, so with an escalating table the waits never
\* decrease; every wait is followed by another attempt, so there is none
\* after the final attempt; without arguments the loops make 3 attempts with
\* the tables 5/15/30 (directory, warm-up and login calls), 2/5/10 (photo
\* downloads) and 10/20/40 (the student-list API call).
C29_WaitsFollowTable ==
    (rt.pc = "done" /\ rt.fn \in RetryLoops) =>
        LET table == IF rt.args.retry_delays # {}
                     THEN CHOOSE t \in rt.args.retry_delays : TRUE
                     ELSE IF rt.fn = "_fetch_photo_with_retry" THEN <<2, 5, 10>>
                     ELSE IF rt.fn = "get_student_data" THEN <<10, 20, 40>>
                     ELSE <<5, 15, 30>>
            budget == IF rt.args.max_retries # {}
                      THEN CHOOSE m \in rt.args.max_retries : TRUE
                      ELSE 3
            w == rt.result.waits
        IN  /\ \A k \in 1..Len(w) :
                  /\ w[k] = table[IF k <= Len(table) THEN k ELSE Len(table)]
                  /\ rt.script[k] # Ok
            /\ Len(w) = rt.result.attempts - 1
            /\ rt.result.attempts <= budget
            /\ \A k \in 1..(budget - 1) :
                  (\A j \in 1..k : rt.script[j] \in {"429", "Timeout"}) => Len(w) >= k
            /\ Escalating(table) => \A i, j \in 1..Len(w) : i < j => w[i] <= w[j]

\* a loop called with a one-entry table failed three times: it waited twice,
\* both times for the one entry, and not after the third attempt
C29_Witness ==
    /\ rt.pc = "done"
    /\ rt.fn = "get_student_data"
    /\ rt.args.retry_delays = {<<5>>}
    /\ rt.args.max_retries = {}
    /\ rt.result.ret = "raise"
    /\ rt.result.attempts = 3
    /\ rt.result.waits = <<5, 5>>

-----------------------------------------------------------------------------
(* Claims about the counters of download_photos *)

Counted == downloaded + updated + skipped + failed

\* the size of the batch once the limit has cut it
Truncated ==
    IF batch_limit # 0 /\ batch_limit < Len(people) THEN batch_limit ELSE Len(people)

\* the counters of the batch so far, and the returned dict at the end
CountersAddUp ==
    /\ pc \in {"loop", "remove", "fetch", "write"} => Counted = idx - 1
    /\ pc = "returned"
       => /\ stats.downloaded + stats.updated + stats.skipped + stats.failed
               = stats.total_processed
          /\ stats.total_processed = Truncated
          /\ stats.downloaded = downloaded /\ stats.updated = updated
          /\ stats.skipped = skipped /\ stats.failed = failed
          /\ idx = Truncated + 1

\* a step that ends the processing of a person adds one to one counter and
\* leaves the other three as they are; any other step of the loop leaves
\* all four as they are
OneCounterPerPerson ==
    pc \in {"loop", "remove", "fetch", "write"} =>
        IF idx' = idx + 1
        THEN \E c \in 1..4 :
                LET before == <<downloaded, updated, skipped, failed>>
                    after == <<downloaded', updated', skipped', failed'>>
                IN  /\ after[c] = before[c] + 1
                    /\ \A o \in (1..4) \ {c} : after[o] = before[o]
        ELSE /\ idx' = idx
             /\ UNCHANGED <<downloaded, updated, skipped, failed>>

\* C31: when download_photos returns, downloaded + updated + skipped +
\* failed = total_processed, total_processed is the number of persons of
\* the batch after the limit has cut it, and each person of it added one to
\* exactly one of the four counters.
C31_CountersPartitionBatch == [](CountersAddUp) /\ [][OneCounterPerPerson]_vars

\* a batch of two cut to one person by the limit, whose download failed
C31_Witness ==
    /\ pc = "returned"
    /\ Len(people) = 2
    /\ batch_limit = 1
    /\ stats.total_processed = 1
    /\ stats.failed = 1

-----------------------------------------------------------------------------
(* Claims about display codes that share a prefix *)

\* the tokens of the person records of the model
Tokens == {p.pv : p \in Persons}

\* the file is one download_photos writes for the display code
WrittenFor(f, displayCode) ==
    \E t \in Tokens : f = _generate_filename(displayCode, t)

\* the file is one download_photos writes for the display code and a token
\* with the timestamp of pv
WrittenForStamp(f, displayCode, pv) ==
    \E t \in Tokens :
        /\ f = _generate_filename(displayCode, t)
        /\ extract_timestamp_from_pv(t) = extract_timestamp_from_pv(pv)

\* C32: while it processes a person, download_photos deletes no cached file
\* that was written for another displayCode, whatever pair of display codes
\* the directory holds (one may be the other followed by an underscore).
C32_DeletesOnlyOwnFiles ==
    [][\A f \in files \ files' :
          /\ pc = "remove"
          /\ WrittenFor(f, photos_to_download[idx].displayCode)]_vars

\* C33: download_photos skips a person only if the directory holds a file
\* written for that person's displayCode with the timestamp of the person's
\* token; a file of another displayCode never makes it skip a person.
C33_SkipOnlyOnOwnFile ==
    [][(pc = "loop" /\ idx <= Len(photos_to_download)
        /\ outcome' = Append(outcome, "skipped"))
       => \E f \in files :
             WrittenForStamp(f, photos_to_download[idx].displayCode,
                             photos_to_download[idx].pv)]_vars

-----------------------------------------------------------------------------
(* Claims about the writer and the detector together *)

\* the step of download_photos that wrote the file of the current person
Written == pc = "write" /\ outcome' = Append(outcome, action_type)

\* C34: right after download_photos has written the file for (displayCode,
\* token), the token having an embedded timestamp, should_update_photo for
\* the sanitised displayCode and the token returns Skip, whatever file of
\* the directory glob lists first.
C34_WrittenFileIsCurrent ==
    [][(Written /\ EmbedsTimestamp(photos_to_download[idx].pv))
       => \A r \in should_update_photo(files',
                                       safe_name(photos_to_download[idx].displayCode),
                                       photos_to_download[idx].pv) :
             r[1] = FALSE]_vars

\* the stale photo of A._B has just been replaced, and the detector, asked
\* again, answers Skip
C34_Witness ==
    /\ Processed
    /\ outcome[idx - 1] = "updated"
    /\ Last = Person(CodeAB, K1)
    /\ _generate_filename(CodeAB, K1) \in files
    /\ \A r \in should_update_photo(files, safe_name(CodeAB), K1) : r[1] = FALSE

-----------------------------------------------------------------------------
(* Claims about what the retry loops return *)

\* C35: for every max_retries, 0 included, and every sequence of answers,
\* _request_with_retry and _fetch_photo_with_retry either return a response
\* whose status check passed or raise an error; they never return normally
\* without a response.
C35_ResponseOrError ==
    RtDone =>
        /\ rt.result.ret \in {"response", "raise"}
        /\ rt.result.ret = "response"
           => (rt.result.attempts >= 1 /\ rt.script[rt.result.attempts] = Ok)
        /\ rt.result.ret = "raise" => rt.result.error # NoError

-----------------------------------------------------------------------------
(* Claims about _process_single_photo *)

\* the files of the directory that were written for the person's display code
OwnFiles == {f \in files : WrittenFor(f, people[1].displayCode)}

\* C36: after _process_single_photo with download=True has completed with a
\* successful download, exactly one cached file of the person's displayCode
\* is in the directory; if the download failed, the result reports
\* failed = 1 and downloaded = 0.
C36_SingleLeavesOneFile ==
    pc = "single_returned" =>
        /\ stats.downloaded = 1
           => (/\ Cardinality(OwnFiles) = 1
               /\ _generate_filename(people[1].displayCode, people[1].pv) \in files
               /\ stats.failed = 0)
        /\ stats.downloaded # 1 => (stats.failed = 1 /\ stats.downloaded = 0)
        /\ served # Ok => (stats.failed = 1 /\ stats.downloaded = 0)

-----------------------------------------------------------------------------
(* Claims about tokens with no timestamp *)

\* the loop is at a person whose token has no embedded timestamp
AtUnstamped ==
    /\ pc \in {"loop", "remove", "fetch", "write"}
    /\ idx <= Len(photos_to_download)
    /\ ~EmbedsTimestamp(photos_to_download[idx].pv)

\* the decision for such a person is (update, no file to delete), no file
\* leaves the directory while the person is processed, and a successful
\* download is counted as downloaded
UnstampedIsDownloaded ==
    AtUnstamped =>
        /\ pc = "loop" => (pc' = "fetch" /\ existing_file' = None)
        /\ files \subseteq files'
        /\ updated' = updated
        /\ pc # "remove"
        /\ (pc = "write" /\ failed' = failed) => downloaded' = downloaded + 1

\* after the person's photo was written the directory holds at most one
\* file of the person's display code
UnstampedLeavesOneFile ==
    (Processed /\ ~EmbedsTimestamp(photos_to_download[idx - 1].pv)
     /\ outcome[idx - 1] \in {"downloaded", "updated"})
    => Cardinality({f \in files :
                       WrittenFor(f, photos_to_download[idx - 1].displayCode)}) <= 1

\* C37: for a token with no embedded timestamp should_update_photo returns
\* (update, no file to delete) whatever the directory holds, so
\* download_photos deletes no file for that person and counts a successful
\* download as downloaded, never as updated; and the directory holds at most
\* one file of that displayCode afterwards.
C37_UnstampedToken == [](UnstampedLeavesOneFile) /\ [][UnstampedIsDownloaded]_vars

-----------------------------------------------------------------------------
(* Claims about termination *)

\* a retry loop that is over issued no more requests than its budget
LoopWithinBudget ==
    (rt.pc = "done" /\ rt.fn \in RetryLoops) => rt.result.attempts <= rt.max_retries

\* the photo GETs sent so far for the current person of download_photos
PhotoGets == Cardinality({k \in 1..Len(events) : events[k].op = "GET"})

\* C38: every retry loop (login-page GET, credential POST,
\* _request_with_retry, _fetch_photo_with_retry) issues at most max_retries
\* requests for one operation and then ends; download_photos ends on every
\* batch and sends at most max_retries photo GETs for a person, none for a
\* skipped one, whatever the answers.
C38_LoopsTerminate ==
    /\ [](LoopWithinBudget)
    /\ [](PhotoGets <= DefaultRetries)
    /\ [][outcome' = Append(outcome, "skipped") => events' = <<>>]_vars
    /\ (rt.pc = "call") ~> (rt.pc = "done")
    /\ (pc = "call") ~> (pc = "returned")

\* download_photos has returned from a batch of two persons, the last of
\* whom failed after three photo GETs
C38_Witness ==
    /\ pc = "returned"
    /\ Len(people) = 2
    /\ outcome[2] = "failed"
    /\ PhotoGets = 3

====
